---- MODULE Spec2Model ----
(***************************************************************************)
(* A model of the BXO request-dispatch engine (src/index.ts): the route    *)
(* table and its composition with plugins, the path matcher, the request   *)
(* validation step and the onRequest / handler / onResponse / onError      *)
(* pipeline of handleRequest.                                              *)
(*                                                                         *)
(* Strings are sequences of one-character strings, so that split('/'),     *)
(* filter(Boolean), slice, join and decodeURIComponent are computed on the *)
(* characters as the code computes them.                                   *)
(***************************************************************************)
EXTENDS Integers, Sequences, FiniteSets, TLC

\* undefined
None == [type |-> "undefined"]

\* a hook that is not registered
NoCallback == "none"

\* ------------------------------------------------------------------------
\* Bounds of the model
\* ------------------------------------------------------------------------
MaxPatSegs == 2
MaxPathSegs == 3
MaxRoutes == 1
MaxOwnRoutes == 2
MaxPlugins == 2
MaxHooks == 3
MaxCookies == 2
MaxCookiePieces == 4
MaxValuePieces == 2
MaxCalls == 3
MaxRegistrations == 2
MaxRequests == 4
MaxTicks == 5
MaxLifecycleCalls == 3

\* ------------------------------------------------------------------------
\* Strings
\* ------------------------------------------------------------------------
RECURSIVE SplitFrom(_, _, _)
SplitFrom(s, i, cur) ==
    IF i > Len(s) THEN <<cur>>
    ELSE IF s[i] = "/" THEN <<cur>> \o SplitFrom(s, i + 1, <<>>)
    ELSE SplitFrom(s, i + 1, Append(cur, s[i]))

\* String.prototype.split('/'): the pieces between the slashes, empty ones kept
split(s) == SplitFrom(s, 1, <<>>)

\* Array.prototype.filter(Boolean) on strings: the empty string is falsy
filterBoolean(segs) == SelectSeq(segs, LAMBDA x : x # <<>>)

\* Array.prototype.slice(i) with the code's 0-based index i
slice(segs, i) == SubSeq(segs, i + 1, Len(segs))

RECURSIVE join(_)
\* Array.prototype.join('/')
join(segs) ==
    IF Len(segs) = 0 THEN <<>>
    ELSE IF Len(segs) = 1 THEN segs[1]
    ELSE segs[1] \o <<"/">> \o join(Tail(segs))

\* the hexadecimal digits that occur in the modelled path names and cookies
HexDigits == {"0", "1", "2", "3", "4", "5", "B", "D"}

HexVal(c) ==
    CASE c = "0" -> 0 [] c = "1" -> 1 [] c = "2" -> 2 [] c = "3" -> 3
      [] c = "4" -> 4 [] c = "5" -> 5 [] c = "B" -> 11 [] c = "D" -> 13

\* the hexadecimal digit of a value below 16 that the modelled escapes use
HexDigit(n) ==
    CASE n = 0 -> "0" [] n = 1 -> "1" [] n = 2 -> "2" [] n = 3 -> "3"
      [] n = 4 -> "4" [] n = 5 -> "5" [] n = 11 -> "B" [] n = 13 -> "D"

\* String.fromCharCode for the bytes below 0x80 that two modelled hex digits
\* can spell; the control characters are named by their code
Chr(n) ==
    CASE n = 32 -> " " [] n = 33 -> "!" [] n = 34 -> "dquote" [] n = 35 -> "#"
      [] n = 36 -> "$" [] n = 37 -> "%" [] n = 43 -> "+" [] n = 45 -> "-"
      [] n = 48 -> "0" [] n = 49 -> "1" [] n = 50 -> "2" [] n = 51 -> "3"
      [] n = 52 -> "4" [] n = 53 -> "5" [] n = 59 -> ";" [] n = 61 -> "="
      [] n = 64 -> "@" [] n = 65 -> "A" [] n = 66 -> "B" [] n = 67 -> "C"
      [] n = 68 -> "D" [] n = 69 -> "E" [] n = 75 -> "K" [] n = 77 -> "M"
      [] n = 80 -> "P" [] n = 81 -> "Q" [] n = 82 -> "R" [] n = 83 -> "S"
      [] n = 84 -> "T" [] n = 85 -> "U" [] n = 91 -> "[" [] n = 93 -> "]"
      [] OTHER -> "x" \o ToString(n)

\* charCodeAt for the characters of the modelled strings that
\* encodeURIComponent escapes
Ord(c) ==
    CASE c = " " -> 32 [] c = "%" -> 37 [] c = ";" -> 59 [] c = "=" -> 61
      [] c = "/" -> 47 [] c = "@" -> 64

RECURSIVE DecodeFrom(_, _)
DecodeFrom(s, i) ==
    IF i > Len(s) THEN [ok |-> TRUE, val |-> <<>>]
    ELSE IF s[i] # "%"
    THEN LET r == DecodeFrom(s, i + 1)
         IN  [ok |-> r.ok, val |-> <<s[i]>> \o r.val]
    ELSE IF /\ i + 2 <= Len(s) /\ s[i + 1] \in HexDigits /\ s[i + 2] \in HexDigits
            /\ 16 * HexVal(s[i + 1]) + HexVal(s[i + 2]) < 128
    THEN LET r == DecodeFrom(s, i + 3)
         IN  [ok |-> r.ok,
              val |-> <<Chr(16 * HexVal(s[i + 1]) + HexVal(s[i + 2]))>> \o r.val]
    ELSE [ok |-> FALSE, val |-> <<>>]

\* decodeURIComponent: every %XY escape becomes its character; a '%' that is
\* not followed by two hex digits makes it throw URIError (ok = FALSE), and
\* so does an escaped byte from 0x80 on that no UTF-8 sequence of the
\* modelled strings completes
decodeURIComponent(s) == DecodeFrom(s, 1)

\* the characters encodeURIComponent leaves alone, among the modelled ones
Unreserved == {"a", "b", "c", "x", "y", "A", "0", "1", "2", "3", "4", "5",
               "-", "_", ".", "!", "~", "*", "'", "(", ")"}

RECURSIVE encodeURIComponent(_)
\* encodeURIComponent: every character outside the unreserved set becomes
\* %XY, X and Y the upper-case hex digits of its code
encodeURIComponent(s) ==
    IF s = <<>> THEN <<>>
    ELSE (IF Head(s) \in Unreserved THEN <<Head(s)>>
          ELSE <<"%", HexDigit(Ord(Head(s)) \div 16), HexDigit(Ord(Head(s)) % 16)>>)
         \o encodeURIComponent(Tail(s))

RECURSIVE SplitOnFrom(_, _, _, _)
SplitOnFrom(s, sep, i, cur) ==
    IF i > Len(s) THEN <<cur>>
    ELSE IF s[i] = sep THEN <<cur>> \o SplitOnFrom(s, sep, i + 1, <<>>)
    ELSE SplitOnFrom(s, sep, i + 1, Append(cur, s[i]))

\* String.prototype.split(sep) for a one-character separator: every piece
\* between two separators, empty ones kept
splitOn(s, sep) == SplitOnFrom(s, sep, 1, <<>>)

RECURSIVE trimStart(_)
trimStart(s) == IF s # <<>> /\ Head(s) = " " THEN trimStart(Tail(s)) ELSE s

RECURSIVE trimEnd(_)
trimEnd(s) ==
    IF s # <<>> /\ s[Len(s)] = " " THEN trimEnd(SubSeq(s, 1, Len(s) - 1)) ELSE s

\* String.prototype.trim (the blank is the white space of the model)
trim(s) == trimEnd(trimStart(s))

\* ------------------------------------------------------------------------
\* The state of the program
\* ------------------------------------------------------------------------
\* The engine instances: the application and two instances it can embed
Engines == {"app", "p1", "p2"}

VARIABLES
    _routes,    \* BXO._routes of each instance: its own routes, in order
    plugins,    \* BXO.plugins of each instance: the embedded instances
    hooks,      \* BXO.hooks of each instance: the callback of each kind
    pc,         \* where handleRequest stands for the request in flight
    request,    \* the request in flight: method, pathname, schema violations
    matched,    \* the result of matchRoute for it
    response,   \* the running response value
    error,      \* the value caught by the catch block
    errorResponse, \* the error response the onError hooks have produced
    log,        \* the callbacks invoked for the request, in order
    result,     \* what handleRequest returned
    ctx,        \* the Context of the request: its cookies and its set block
    issues,     \* what the response schemas reject in the running response
    _wsRoutes,  \* BXO._wsRoutes of each instance: its WebSocket routes
    server,     \* the server handle handleRequest is given, if any
    suspended,  \* the locals of a second handleRequest call, waiting at an await
    store,      \* RateLimitStore.store: the entry of each key
    now,        \* Date.now()
    registered, \* history: the callbacks passed to onRequest / onResponse /
                \* onError of each instance, in the order of the calls
    isRunning,  \* BXO.isRunning of the application
    thisServer, \* BXO.server of the application: the server it refers to, if any
    servers,    \* the servers Bun.serve has created: port, listening or stopped
    lifecycleCalls, \* the start() and stop() calls made: where each stands
    events      \* history: what the start() and stop() calls did, in order

vars == <<_routes, plugins, hooks, pc, request, matched, response, error,
          errorResponse, log, result, ctx, issues, _wsRoutes, server,
          suspended, store, now, registered, isRunning, thisServer, servers,
          lifecycleCalls, events>>

\* the state of the server lifecycle
lifecycleVars == <<isRunning, thisServer, servers, lifecycleCalls, events>>

\* what the HTTP pipeline of one request leaves alone
otherVars == <<_wsRoutes, server, suspended, store, now, registered, lifecycleVars>>

\* ------------------------------------------------------------------------
\* Route table and path matcher
\* ------------------------------------------------------------------------
Methods == {"GET", "POST"}

\* the five validated parts of a request, in the order the code validates them
Parts == <<"params", "query", "body", "headers", "cookies">>

PartSet == {Parts[i] : i \in DOMAIN Parts}

\* interface Route (the handler is the one handler of the model): config is
\* the set of request parts the route declares a schema for, response is
\* config.response
RouteWith(method, path, config, responseConfig) ==
    [method |-> method, path |-> path, config |-> config,
     response |-> responseConfig]

\* a route whose config has no response schema
Route(method, path, config) == RouteWith(method, path, config, None)

RECURSIVE PluginRoutes(_, _)
PluginRoutes(table, ps) ==
    IF ps = <<>> THEN <<>> ELSE table[Head(ps)] \o PluginRoutes(table, Tail(ps))

\* getAllRoutes with the plugin routes put first
getAllRoutesPluginsFirst(e) == PluginRoutes(_routes, plugins[e]) \o _routes[e]

\* getAllRoutes that leaves out the routes of the plugins
getAllRoutesOwn(e) == _routes[e]

\* getAllRoutes: the instance's own routes, then each plugin's own routes
getAllRoutes(e) == _routes[e] \o PluginRoutes(_routes, plugins[e])

NoParams == [k \in {} |-> <<>>]

\* params[key] = value, overwriting an earlier binding of the key
Bind(params, key, value) == (key :> value) @@ params

\* no matchRoute result yet
NotMatched == [kind |-> "none"]

NoMatch == [kind |-> "nomatch"]
Throw == [kind |-> "throw"]

\* decodeURIComponent replaced by the identity
decodeIdentity(s) == [ok |-> TRUE, val |-> s]

\* the decoding applied to a path segment bound by :name or by an inner *
decodeSegment(s) == decodeURIComponent(s)

RECURSIVE SegmentLoop(_, _, _, _)
\* the for loop over routeSegments (i is the code's 0-based index)
SegmentLoop(routeSegments, pathSegments, i, params) ==
    IF i >= Len(routeSegments) THEN [kind |-> "match", params |-> params]
    ELSE LET routeSegment == routeSegments[i + 1]
             pathSegment == IF i + 1 <= Len(pathSegments)
                            THEN pathSegments[i + 1] ELSE <<>>
         IN  IF routeSegment = <<>> THEN NoMatch
             ELSE IF routeSegment = <<"*">> /\ i = Len(routeSegments) - 1
             THEN [kind |-> "match",
                   params |-> Bind(params, <<"*">>, join(slice(pathSegments, i)))]
             ELSE IF pathSegment = <<>> THEN NoMatch
             ELSE IF routeSegment[1] = ":"
             THEN LET d == decodeSegment(pathSegment)
                  IN  IF ~d.ok THEN Throw
                      ELSE SegmentLoop(routeSegments, pathSegments, i + 1,
                                       Bind(params, Tail(routeSegment), d.val))
             ELSE IF routeSegment = <<"*">>
             THEN LET d == decodeSegment(pathSegment)
                  IN  IF ~d.ok THEN Throw
                      ELSE SegmentLoop(routeSegments, pathSegments, i + 1,
                                       Bind(params, <<"*">>, d.val))
             ELSE IF routeSegment # pathSegment THEN NoMatch
             ELSE SegmentLoop(routeSegments, pathSegments, i + 1, params)

\* path.split('/') with the empty pieces kept
segmentsUnfiltered(path) == split(path)

\* path.split('/').filter(Boolean)
segments(path) == filterBoolean(split(path))

\* the body of matchRoute's loop for one route: the segment counts, then the
\* segment loop
matchPattern(routePath, pathname) ==
    LET routeSegments == segments(routePath)
        pathSegments == segments(pathname)
        hasWildcardAtEnd == Len(routeSegments) > 0
                            /\ routeSegments[Len(routeSegments)] = <<"*">>
    IN  IF hasWildcardAtEnd /\ Len(pathSegments) < Len(routeSegments) - 1
        THEN NoMatch
        ELSE IF ~hasWildcardAtEnd /\ Len(routeSegments) # Len(pathSegments)
        THEN NoMatch
        ELSE SegmentLoop(routeSegments, pathSegments, 0, NoParams)

RECURSIVE RouteLoop(_, _, _, _)
\* the for loop over allRoutes: the first route that matches is returned; an
\* exception of decodeURIComponent leaves the loop
RouteLoop(allRoutes, k, method, pathname) ==
    IF k > Len(allRoutes) THEN [kind |-> "null"]
    ELSE IF allRoutes[k].method # method
    THEN RouteLoop(allRoutes, k + 1, method, pathname)
    ELSE LET m == matchPattern(allRoutes[k].path, pathname)
         IN  IF m.kind = "throw" THEN Throw
             ELSE IF m.kind = "match"
             THEN [kind |-> "match", route |-> allRoutes[k], index |-> k,
                   params |-> m.params]
             ELSE RouteLoop(allRoutes, k + 1, method, pathname)

\* matchRoute that falls back to the routes of the other method
matchRouteAnyMethod(e, method, pathname) ==
    LET m == RouteLoop(getAllRoutes(e), 1, method, pathname)
    IN  IF m.kind # "null" THEN m
        ELSE RouteLoop(getAllRoutes(e), 1, CHOOSE o \in Methods : o # method, pathname)

\* the plain objects the plugin factories return and the README's custom
\* plugin, with the hook kinds each has as own properties; none has a
\* _routes, a _wsRoutes or a hooks property
PlainObjects ==
    [cors |-> {"onRequest", "onResponse"},
     auth |-> {"onRequest"},
     custom |-> {"onRequest", "onResponse", "onError"}]

\* the members of the plugin list of e that are not BXO instances
PlainPlugins(e) == {j \in DOMAIN plugins[e] : plugins[e][j] \notin Engines}

\* `allRoutes.push(...plugin._routes)` with _routes undefined
TypeError == [kind |-> "throw", error |-> "TypeError"]

\* matchRoute(method, pathname) on instance e
matchRoute(e, method, pathname) ==
    IF PlainPlugins(e) # {} THEN TypeError
    ELSE RouteLoop(getAllRoutes(e), 1, method, pathname)

\* interface WSRoute (the handler is named after the instance it was
\* registered on)
WSRoute(path, handler) == [path |-> path, handler |-> handler]

\* getAllWSRoutes that visits the plugins of the plugins too
getAllWSRoutesDeep(e) ==
    _wsRoutes[e]
        \o PluginRoutes(_wsRoutes, plugins[e])
        \o PluginRoutes([q \in Engines |-> PluginRoutes(_wsRoutes, plugins[q])],
                        plugins[e])

\* getAllWSRoutes: the instance's own WebSocket routes, then each plugin's
getAllWSRoutes(e) == _wsRoutes[e] \o PluginRoutes(_wsRoutes, plugins[e])

RECURSIVE WSRouteLoop(_, _, _)
\* the for loop of matchWSRoute over allWSRoutes
WSRouteLoop(allWSRoutes, k, pathname) ==
    IF k > Len(allWSRoutes) THEN [kind |-> "null"]
    ELSE LET m == matchPattern(allWSRoutes[k].path, pathname)
         IN  IF m.kind = "throw" THEN Throw
             ELSE IF m.kind = "match"
             THEN [kind |-> "match", route |-> allWSRoutes[k], index |-> k,
                   params |-> m.params]
             ELSE WSRouteLoop(allWSRoutes, k + 1, pathname)

\* matchWSRoute(pathname) on instance e
matchWSRoute(e, pathname) ==
    IF PlainPlugins(e) # {} THEN TypeError
    ELSE WSRouteLoop(getAllWSRoutes(e), 1, pathname)

\* ------------------------------------------------------------------------
\* Values
\* ------------------------------------------------------------------------
HookKinds == {"onRequest", "onResponse", "onError"}

\* the instance whose server dispatches the requests
Dispatcher == "app"

\* a string literal as the sequence of its characters
Chars(str) == [i \in 1..Len(str) |-> SubSeq(str, i, i)]

\* an object without properties, as a map of headers
NoHeaders == [k \in {} |-> <<>>]

\* new Response(body, {status, headers})
ResponseWith(status, headers, body) ==
    [type |-> "Response", status |-> status, headers |-> headers, body |-> body]

\* new Response(body, {status})
Response(status, body) == ResponseWith(status, NoHeaders, body)

ApplicationJson == Chars("application/json")

\* JSON.stringify(value): the JSON text of the value
JSONstringify(value) == [type |-> "JSON", of |-> value]

\* new Response(JSON.stringify(value), {status, headers: {'Content-Type':
\* 'application/json'}})
JsonResponse(status, value) ==
    ResponseWith(status, "Content-Type" :> ApplicationJson, JSONstringify(value))

\* a plain value returned by the handler or a hook; marks names its authors
Json(marks) == [type |-> "json", marks |-> marks]

\* new Error(message)
Error(message) == [type |-> "Error", message |-> message]

\* the falsy values a callback of the model can return: undefined, null,
\* false, 0 and the empty string
Null == [type |-> "null"]
False == [type |-> "boolean", value |-> FALSE]
Zero == [type |-> "number", value |-> 0]
EmptyString == [type |-> "string", text |-> <<>>]

Falsy == {None, Null, False, Zero, EmptyString}

\* what a callback returns with each of the falsy outcomes
FalsyReturns ==
    [undefined |-> None, null |-> Null, false |-> False, zero |-> Zero,
     empty |-> EmptyString]

\* only undefined gives way to the other operand (as with ?? on a callback
\* that never returns null)
DefinedValue(v) == v # None

\* the left operand of || is kept when it is truthy
Truthy(v) == v \notin Falsy

\* the fields of a request part that a schema can reject
Fields == {"f", "g"}

\* what the callbacks of the model can do when they are called
OnRequestOutcomes == {"return", "throwResponse", "throwError"}
HandlerOutcomes == {"json", "Response", "throwResponse", "throwError"}
OnResponseOutcomes == {"undefined", "value", "throwError"}
OnErrorOutcomes == {"undefined", "value", "Response", "throwError"}

\* the Response a callback owned by `who` throws or returns
ResponseOf(who) == Response(429, [text |-> "limited", by |-> who])

\* the Error a callback owned by `who` throws
ErrorOf(who) == Error("boom")

\* ------------------------------------------------------------------------
\* Registration (the fluent API)
\* ------------------------------------------------------------------------
NoHooks == [k \in HookKinds |-> NoCallback]

Idle == [at |-> "idle", i |-> 0]
Done == [at |-> "done", i |-> 0]

\* a request: viol is what the declared schemas reject in its parts
Request(method, pathname, headers) ==
    [method |-> method, pathname |-> pathname, viol |-> {}, headers |-> headers]

NoRequest == Request("none", <<>>, NoHeaders)

\* ctx.set of a new context: {}
NoSet == [k \in {} |-> 0]

\* no context built yet
NoContext == [cookies |-> NoParams, set |-> NoSet]

\* the state right after `new BXO()` for each instance, no request in flight
\* no handleRequest call is waiting
NoTask == [type |-> "none"]

\* handleRequest is called without a server handle
NoServer == [type |-> "undefined"]

\* a RateLimitStore without entries
NoStore == [k \in {} |-> 0]

\* `new BXO()`: isRunning = false, no server, and no start() or stop() call
\* has been made
NotStarted ==
    /\ isRunning = FALSE
    /\ thisServer = 0
    /\ servers = <<>>
    /\ lifecycleCalls = <<>>
    /\ events = <<>>

\* each callback in place was registered by the one call made for its kind
RegisteredOnce ==
    registered = [e \in Engines |-> [k \in DOMAIN hooks[e] |->
                    IF hooks[e][k] = NoCallback THEN <<>> ELSE <<hooks[e][k]>>]]

\* an application without WebSocket routes, whose handleRequest gets no
\* server handle and runs one call at a time, and without a rate limit
\* store in use
HttpOnly ==
    /\ _wsRoutes = [e \in Engines |-> <<>>]
    /\ server = NoServer
    /\ suspended = NoTask
    /\ store = NoStore
    /\ now = 0
    /\ NotStarted

Constructed ==
    /\ HttpOnly
    /\ _routes = [e \in Engines |-> <<>>]
    /\ plugins = [e \in Engines |-> <<>>]
    /\ hooks = [e \in Engines |-> NoHooks]

NoRequestInFlight ==
    /\ pc = Idle
    /\ request = NoRequest
    /\ matched = NotMatched
    /\ response = None
    /\ error = None
    /\ errorResponse = None
    /\ log = <<>>
    /\ result = None
    /\ ctx = NoContext
    /\ issues = {}

requestVars == <<pc, request, matched, response, error, errorResponse, log,
                 result, ctx, issues>>

\* a registration that puts the new route in front of the instance's list
RegisterRouteAtFront(e, method, path, config) ==
    /\ pc = Idle
    /\ _routes' = [_routes EXCEPT ![e] = <<Route(method, path, config)>> \o @]
    /\ UNCHANGED <<otherVars, plugins, hooks, requestVars>>

\* get / post / put / delete / patch: push one route on the instance's list
RegisterRoute(e, method, path, config) ==
    /\ pc = Idle
    /\ _routes' = [_routes EXCEPT ![e] = Append(@, Route(method, path, config))]
    /\ UNCHANGED <<otherVars, plugins, hooks, requestVars>>

\* ws(path, handler): push one WebSocket route on the instance's list
RegisterWS(e, path) ==
    /\ pc = Idle
    /\ _wsRoutes' = [_wsRoutes EXCEPT ![e] = Append(@, WSRoute(path, e))]
    /\ UNCHANGED <<lifecycleVars, _routes, plugins, hooks, requestVars, server, suspended, store,
                   now, registered>>

\* use(bxoInstance): push the instance itself on the plugin list
Use(e, child) ==
    /\ pc = Idle
    /\ plugins' = [plugins EXCEPT ![e] = Append(@, child)]
    /\ UNCHANGED <<otherVars, _routes, hooks, requestVars>>

\* a registration that keeps the callback that is already there
RegisterHookOnce(e, kind, callback) ==
    /\ pc = Idle
    /\ hooks' = [hooks EXCEPT ![e][kind] = IF @ = NoCallback THEN callback ELSE @]
    /\ registered' = [registered EXCEPT ![e][kind] = Append(@, callback)]
    /\ UNCHANGED <<lifecycleVars, _wsRoutes, server, suspended, store, now, _routes, plugins,
                   requestVars>>

\* onRequest / onResponse / onError: set the one callback of that kind
RegisterHook(e, kind, callback) ==
    /\ pc = Idle
    /\ hooks' = [hooks EXCEPT ![e][kind] = callback]
    /\ registered' = [registered EXCEPT ![e][kind] = Append(@, callback)]
    /\ UNCHANGED <<lifecycleVars, _wsRoutes, server, suspended, store, now, _routes, plugins,
                   requestVars>>

\* ------------------------------------------------------------------------
\* handleRequest
\* ------------------------------------------------------------------------
\* the instances whose hooks run, in the order the code visits them: the
\* dispatching instance's own hook, then `for (const bxoInstance of
\* this.plugins)`
HookOrderPluginsFirst == plugins[Dispatcher] \o <<Dispatcher>>

HookOrder == <<Dispatcher>> \o plugins[Dispatcher]

\* the first position >= from of HookOrder whose instance has a hook of the
\* kind (the `if (....hooks.onX)` tests), 0 when there is none
NextHook(kind, from) ==
    LET cands == {j \in from..Len(HookOrder) : hooks[HookOrder[j]][kind] # NoCallback}
    IN  IF cands = {} THEN 0 ELSE CHOOSE j \in cands : \A k \in cands : j <= k

\* the parts validateData is called for, in the order of the calls
ValidatedPartsButCookies == SubSeq(Parts, 1, 4)

ValidatedParts == Parts

\* the first part, in the order of the validateData calls, whose declared
\* schema rejects the raw value: schema.parse throws there and the later
\* parts are not validated. "none" when every declared schema accepts.
FirstInvalidPart(config, viol) ==
    LET bad == {i \in DOMAIN ValidatedParts :
                  /\ ValidatedParts[i] \in config
                  /\ \E f \in Fields : <<ValidatedParts[i], f>> \in viol}
    IN  IF bad = {} THEN "none"
        ELSE ValidatedParts[CHOOSE i \in bad : \A k \in bad : i <= k]

\* details taken from every part of the request instead of the failing one
IssuesOfAllParts(part, viol) == viol

\* validationError.issues: the issues of the one parse call that threw
Issues(part, viol) == {is \in viol : is[1] = part}

\* the 400 response of the validation catch block
ValidationFailed(details) ==
    JsonResponse(400, [error |-> "Validation failed for n field(s)",
                       n |-> Cardinality(details), details |-> details])

\* ---- the values a handler can return, besides Json and Response ----
\* a string
Text(chars) == [type |-> "string", text |-> chars]

\* a File (or a BunFile): file.type and file.size
File(mime, size) == [type |-> "File", mime |-> mime, size |-> size]

\* an object that is none of the above, with its properties
Object(props) == [type |-> "object", props |-> props]

\* `key in value` for a value with typeof value === 'object'
In(key, value) == value.type = "object" /\ key \in DOMAIN value.props

\* ---- ctx.set ----
\* the assignments ctx.set.status = .., ctx.set.headers = .., ctx.set.cookies
\* = .. of one callback: w holds the assigned properties
Assign(set, w) == w @@ set

\* ctx.status(code, data): ctx.set.status = code; return data
ctxStatus(set, code, data) == [set |-> ("status" :> code) @@ set, ret |-> data]

\* the status is always 200
Always200(set) == 200

\* ctx.set.status || 200
StatusOr200(set) ==
    IF "status" \in DOMAIN set /\ set.status # 0 THEN set.status ELSE 200

\* ...ctx.set.headers (nothing when it is undefined)
SetHeaders(set) == IF "headers" \in DOMAIN set THEN set.headers ELSE NoHeaders

\* ---- cookies ----
\* createCookie(name, value, options): {name, value, ...options}
createCookie(name, value, options) == options @@ [name |-> name, value |-> value]

\* `if (cookie.attr)` for an attribute whose value is a string
HasText(cookie, attr) == attr \in DOMAIN cookie /\ cookie[attr] # <<>>

\* the cookie string built for one cookie of ctx.set.cookies; expires holds
\* the text of expires.toUTCString()
cookieString(cookie) ==
    encodeURIComponent(cookie.name) \o <<"=">> \o encodeURIComponent(cookie.value)
    \o (IF HasText(cookie, "domain") THEN Chars("; Domain=") \o cookie.domain ELSE <<>>)
    \o (IF HasText(cookie, "path") THEN Chars("; Path=") \o cookie.path ELSE <<>>)
    \o (IF HasText(cookie, "expires") THEN Chars("; Expires=") \o cookie.expires ELSE <<>>)
    \o (IF "maxAge" \in DOMAIN cookie /\ cookie.maxAge # 0
        THEN Chars("; Max-Age=") \o Chars(ToString(cookie.maxAge)) ELSE <<>>)
    \o (IF "secure" \in DOMAIN cookie /\ cookie.secure THEN Chars("; Secure") ELSE <<>>)
    \o (IF "httpOnly" \in DOMAIN cookie /\ cookie.httpOnly THEN Chars("; HttpOnly") ELSE <<>>)
    \o (IF HasText(cookie, "sameSite") THEN Chars("; SameSite=") \o cookie.sameSite ELSE <<>>)

\* index === 0 ? 'Set-Cookie' : `Set-Cookie-${index}`
SetCookieName(index) ==
    IF index = 0 THEN "Set-Cookie" ELSE "Set-Cookie-" \o ToString(index)

RECURSIVE AddCookieHeaders(_, _, _)
\* cookieHeaders.forEach((cookieHeader, index) => responseHeaders[..] = ..)
AddCookieHeaders(responseHeaders, cookieHeaders, index) ==
    IF index >= Len(cookieHeaders) THEN responseHeaders
    ELSE AddCookieHeaders(
             (SetCookieName(index) :> cookieHeaders[index + 1]) @@ responseHeaders,
             cookieHeaders, index + 1)

\* "Prepare headers with cookies": a copy of ctx.set.headers, then one entry
\* for each cookie of ctx.set.cookies
HeadersWithCookies(set) ==
    IF "cookies" \in DOMAIN set /\ Len(set.cookies) > 0
    THEN AddCookieHeaders(SetHeaders(set),
                          [i \in DOMAIN set.cookies |-> cookieString(set.cookies[i])], 0)
    ELSE SetHeaders(set)

\* the value of a request header as headers.get gives it: null when absent
get(headers, name) ==
    IF name \in DOMAIN headers THEN [null |-> FALSE, value |-> headers[name]]
    ELSE [null |-> TRUE, value |-> <<>>]

RECURSIVE CookiePairLoop(_, _, _)
\* the for loop of parseCookies over cookiePairs; a URIError of
\* decodeURIComponent leaves it (ok = FALSE)
CookiePairLoop(cookiePairs, k, cookies) ==
    IF k > Len(cookiePairs) THEN [ok |-> TRUE, val |-> cookies]
    ELSE LET parts == splitOn(trim(cookiePairs[k]), "=")
             name == parts[1]
             hasValue == Len(parts) >= 2
             value == IF hasValue THEN parts[2] ELSE <<>>
         IN  IF name # <<>> /\ hasValue /\ value # <<>>
             THEN LET dn == decodeURIComponent(name)
                      dv == decodeURIComponent(value)
                  IN  IF ~dn.ok \/ ~dv.ok THEN [ok |-> FALSE, val |-> cookies]
                      ELSE CookiePairLoop(cookiePairs, k + 1,
                                          Bind(cookies, dn.val, dv.val))
             ELSE CookiePairLoop(cookiePairs, k + 1, cookies)

\* parseCookies(cookieHeader)
parseCookies(cookieHeader) ==
    IF cookieHeader.null \/ cookieHeader.value = <<>>
    THEN [ok |-> TRUE, val |-> NoParams]
    ELSE CookiePairLoop(splitOn(cookieHeader.value, ";"), 1, NoParams)

\* ---- response validation ----
\* the response schemas of the model
Schemas == {"A", "B"}

NoSchema == "none"

\* config.response is one schema
OneSchema(schema) == [kind |-> "schema", name |-> schema]

\* config.response is an object keyed by status
ByStatus(map) == [kind |-> "byStatus", map |-> map]

\* zod's parse builds its output from the data: the schema is the last
\* author of a plain value, other values come out as they went in
Parsed(schema, data) ==
    IF data.type = "json" THEN Json(Append(data.marks, schema)) ELSE data

\* schema.parse(data): rejected is what the schemas reject in the data, as
\* pairs <<schema, field>>; ok = FALSE when it throws, with its issues
parse(schema, data, rejected) ==
    LET found == {is \in rejected : is[1] = schema}
    IN  IF found = {} THEN [ok |-> TRUE, val |-> Parsed(schema, data), issues |-> {}]
        ELSE [ok |-> FALSE, val |-> data, issues |-> found]

\* the fallback statuses tried from 500 down
FallbackStatusesReversed == <<500, 400, 201, 200>>

\* const fallbackStatuses = [200, 201, 400, 500]
FallbackStatuses == <<200, 201, 400, 500>>

RECURSIVE FallbackLoop(_, _)
\* the for loop over fallbackStatuses: the schema of the first one that has
\* an entry
FallbackLoop(map, k) ==
    IF k > Len(FallbackStatuses) THEN NoSchema
    ELSE IF FallbackStatuses[k] \in DOMAIN map THEN map[FallbackStatuses[k]]
    ELSE FallbackLoop(map, k + 1)

\* the schema is looked up among the fallback statuses only
SchemaOfFallbackOnly(responseConfig, status) ==
    IF responseConfig = None THEN NoSchema
    ELSE IF responseConfig.kind = "schema" THEN responseConfig.name
    ELSE FallbackLoop(responseConfig.map, 1)

\* the schema validateResponse parses the data with, NoSchema when it
\* returns the data as it is
SchemaOf(responseConfig, status) ==
    IF responseConfig = None THEN NoSchema
    ELSE IF responseConfig.kind = "schema" THEN responseConfig.name
    ELSE IF status \in DOMAIN responseConfig.map THEN responseConfig.map[status]
    ELSE FallbackLoop(responseConfig.map, 1)

\* validateResponse(responseConfig, data, status)
validateResponse(responseConfig, data, status, rejected) ==
    LET schema == SchemaOf(responseConfig, status)
    IN  IF schema = NoSchema THEN [ok |-> TRUE, val |-> data, issues |-> {}]
        ELSE parse(schema, data, rejected)

\* every running value is validated when the route has a response schema
ValidatesAnyValue(route, v) == route.response # None

\* if (route.config?.response && !(response instanceof Response))
ValidatesResponse(route, v) == route.response # None /\ v.type # "Response"

\* the 500 response of the response validation catch block
ResponseValidationFailed(details) ==
    JsonResponse(500, [error |-> "Response validation failed for n field(s)",
                       n |-> Cardinality(details), details |-> details])

\* ---- materialization ----
OctetStream == Chars("application/octet-stream")

\* the JSON content type put over the headers of ctx.set
JsonHeadersForced(responseHeaders) ==
    ("Content-Type" :> ApplicationJson) @@ responseHeaders

\* {'Content-Type': 'application/json', ...responseInit.headers}
JsonHeaders(responseHeaders) ==
    responseHeaders @@ ("Content-Type" :> ApplicationJson)

\* "Convert response to Response object": a Response is returned as it is; a
\* File and an object with `stream` and `size` become the body under a
\* content type and a content length that ctx.set.headers can replace; a
\* string becomes the body; any other value becomes a JSON body
Materialize(v, set) ==
    IF v.type = "Response" THEN v
    ELSE IF v.type = "File"
    THEN ResponseWith(StatusOr200(set),
                      SetHeaders(set)
                          @@ ("Content-Type" :>
                                 (IF v.mime # <<>> THEN v.mime ELSE OctetStream))
                          @@ ("Content-Length" :> Chars(ToString(v.size))),
                      v)
    ELSE IF In("stream", v) /\ In("size", v)
    THEN LET bunFile == v.props
         IN  ResponseWith(StatusOr200(set),
                          (IF "headers" \in DOMAIN bunFile THEN bunFile.headers
                           ELSE NoHeaders)
                              @@ SetHeaders(set)
                              @@ ("Content-Type" :>
                                     (IF "type" \in DOMAIN bunFile /\ bunFile.type # <<>>
                                      THEN bunFile.type ELSE OctetStream))
                              @@ ("Content-Length" :> Chars(ToString(bunFile.size))),
                          v)
    ELSE LET responseHeaders == HeadersWithCookies(set)
         IN  IF v.type = "string"
             THEN ResponseWith(StatusOr200(set), responseHeaders, v)
             ELSE ResponseWith(StatusOr200(set), JsonHeaders(responseHeaders),
                               JSONstringify(v))

\* the end of the catch block, after the onError hooks
ErrorResult(er, err) ==
    IF Truthy(er)
    THEN IF er.type = "Response" THEN er ELSE JsonResponse(500, er)
    ELSE JsonResponse(500, [error |-> IF err.type = "Error" THEN err.message
                                      ELSE "Internal Server Error"])

\* one callback invocation: whose callback, of which kind, the response value
\* it was given, what it did, the value it returned and what it assigned in
\* ctx.set
LogEntry(who, kind, arg, ret, outcome, wrote) ==
    [who |-> who, kind |-> kind, arg |-> arg, ret |-> ret, outcome |-> outcome,
     wrote |-> wrote,
     callback |-> IF kind \in HookKinds THEN hooks[who][kind] ELSE "handler"]

\* control enters the onRequest hooks at position `from` of HookOrder
EnterOnRequest(from) ==
    LET j == NextHook("onRequest", from)
    IN  pc' = IF j = 0 THEN [at |-> "handler", i |-> 0]
              ELSE [at |-> "onRequest", i |-> j]

\* control enters the onResponse hooks at position `from` with the running
\* response v and ctx.set as it is now; after the last one the response is
\* validated against the route's response schema, materialized and returned
EnterOnResponse(from, v, set) ==
    LET j == NextHook("onResponse", from)
    IN  IF j # 0
        THEN /\ pc' = [at |-> "onResponse", i |-> j]
             /\ response' = v
             /\ UNCHANGED <<result, issues>>
        ELSE /\ pc' = Done
             /\ IF ValidatesResponse(matched.route, v)
                THEN \E rejected \in SUBSET (Schemas \X Fields) :
                        LET r == validateResponse(matched.route.response, v,
                                                  StatusOr200(set), rejected)
                        IN  /\ issues' = rejected
                            /\ response' = r.val
                            /\ result' = IF r.ok THEN Materialize(r.val, set)
                                         ELSE ResponseValidationFailed(r.issues)
                ELSE /\ issues' = issues
                     /\ response' = v
                     /\ result' = Materialize(v, set)

\* control enters the catch block's onError hooks at position `from`
EnterOnError(from, err, er) ==
    LET j == NextHook("onError", from)
    IN  /\ error' = err
        /\ errorResponse' = er
        /\ IF j = 0
           THEN pc' = Done /\ result' = ErrorResult(er, err)
           ELSE pc' = [at |-> "onError", i |-> j] /\ result' = result

\* a request arrives while none is in flight
ReceiveRequest(req) ==
    /\ pc = Idle
    /\ pc' = [at |-> "routing", i |-> 0]
    /\ request' = req
    /\ UNCHANGED <<otherVars, _routes, plugins, hooks, matched, response, error,
                   errorResponse, log, result, ctx, issues>>

\* a request without headers arrives
Receive(method, pathname) == ReceiveRequest(Request(method, pathname, NoHeaders))

\* handleRequest rejects with what was thrown outside its try blocks
Rejected(reason) == [type |-> "rejected", reason |-> reason]

\* a server handle whose upgrade() accepts or rejects
Server(accepts) == [type |-> "server", accepts |-> accepts]

\* handleRequest returned undefined after server.upgrade(request, {data})
\* returned true
Upgraded(data) == [type |-> "upgraded", data |-> data]

\* what the exception of a matcher is: the URIError of decodeURIComponent
\* or the TypeError of the spread of an undefined route list
ErrorOfMatch(m) == IF "error" \in DOMAIN m THEN m.error ELSE "URIError"

\* the WebSocket branch taken also without a server handle
UpgradeWithoutServer(ws) ==
    IF ws.kind = "throw" THEN Rejected(ErrorOfMatch(ws))
    ELSE IF ws.kind = "match" /\ (server = NoServer \/ server.accepts)
    THEN Upgraded([handler |-> ws.route.handler, params |-> ws.params,
                   pathname |-> request.pathname])
    ELSE Response(400, [text |-> "WebSocket upgrade failed"])

\* the WebSocket branch: what handleRequest returns for the match ws
Upgrade(ws) ==
    IF ws.kind = "throw" THEN Rejected(ErrorOfMatch(ws))
    ELSE IF ws.kind = "match" /\ server # NoServer /\ server.accepts
    THEN Upgraded([handler |-> ws.route.handler, params |-> ws.params,
                   pathname |-> request.pathname])
    ELSE Response(400, [text |-> "WebSocket upgrade failed"])

\* whether the request asks for a WebSocket upgrade
IsUpgrade(req) == get(req.headers, "upgrade") = [null |-> FALSE, value |-> Chars("websocket")]

\* the WebSocket upgrade when the request asks for it; otherwise matchRoute,
\* and the 404 when it returns null
RouteRequest ==
    /\ pc.at = "routing"
    /\ IF IsUpgrade(request)
       THEN LET ws == matchWSRoute(Dispatcher, request.pathname)
            IN  /\ matched' = ws
                /\ pc' = Done
                /\ result' = Upgrade(ws)
       ELSE LET m == matchRoute(Dispatcher, request.method, request.pathname)
            IN  /\ matched' = m
                /\ IF m.kind = "throw"
                   THEN pc' = Done /\ result' = Rejected(ErrorOfMatch(m))
                   ELSE IF m.kind = "null"
                   THEN pc' = Done /\ result' = Response(404, [text |-> "Not Found"])
                   ELSE pc' = [at |-> "validating", i |-> 0] /\ result' = result
    /\ UNCHANGED <<otherVars, _routes, plugins, hooks, request, response, error,
                   errorResponse, log, ctx, issues>>

\* the request is parsed (parseCookies; a URIError of it is thrown outside
\* the try blocks), then the validation try block: viol is what the declared
\* schemas reject in the request's parts; the context is built when they
\* accept
Validate ==
    /\ pc.at = "validating"
    /\ LET cookies == parseCookies(get(request.headers, "cookie"))
       IN  IF ~cookies.ok
           THEN /\ pc' = Done
                /\ result' = Rejected("URIError")
                /\ UNCHANGED <<request, ctx>>
           ELSE \E viol \in SUBSET (matched.route.config \X Fields) :
                   /\ request' = [request EXCEPT !.viol = viol]
                   /\ LET part == FirstInvalidPart(matched.route.config, viol)
                      IN  IF part # "none"
                          THEN /\ pc' = Done
                               /\ result' = ValidationFailed(Issues(part, viol))
                               /\ ctx' = ctx
                          ELSE /\ EnterOnRequest(1)
                               /\ result' = result
                               /\ ctx' = [cookies |-> cookies.val, set |-> NoSet]
    /\ UNCHANGED <<otherVars, _routes, plugins, hooks, matched, response, error,
                   errorResponse, log, issues>>

\* an exception of an onRequest hook is swallowed
NeverThrows(outcome) == FALSE

\* whether the awaited callback threw, so that control goes to the catch block
Throws(outcome) == outcome \in {"throwResponse", "throwError"}

Thrown(outcome, who) == IF outcome = "throwResponse" THEN ResponseOf(who) ELSE ErrorOf(who)

\* await hooks.onRequest(ctx, this); w is what the hook assigns in ctx.set
OnRequestHook(outcome, w) ==
    /\ pc.at = "onRequest"
    /\ LET who == HookOrder[pc.i]
       IN  /\ log' = Append(log, LogEntry(who, "onRequest", None, None, outcome, w))
           /\ ctx' = [ctx EXCEPT !.set = Assign(@, w)]
           /\ IF Throws(outcome)
              THEN /\ EnterOnError(1, Thrown(outcome, who), None)
                   /\ UNCHANGED <<response, issues>>
              ELSE /\ EnterOnRequest(pc.i + 1)
                   /\ UNCHANGED <<response, error, errorResponse, result, issues>>
    /\ UNCHANGED <<otherVars, _routes, plugins, hooks, request, matched>>

\* the value the handler of the model returns
HandlerValue(outcome) ==
    CASE outcome \in {"json", "status"} -> Json(<<"handler">>)
      [] outcome = "Response" -> Response(201, [text |-> "made"])
      [] outcome = "string" -> Text(Chars("ok"))
      [] outcome = "File" -> File(Chars("text/plain"), 12)
      [] outcome = "FileUntyped" -> File(<<>>, 0)
      [] outcome = "file()" ->
             Object([stream |-> "stream", size |-> 7, type |-> Chars("image/png"),
                     headers |-> ("Cache-Control" :> Chars("no-store"))])
      [] outcome = "object" -> Object([stream |-> "live", size |-> 3])
      [] OTHER -> None

\* let response = await route.handler(ctx); w is what the handler assigns in
\* ctx.set; with the outcome "status" it ends with `return ctx.status(201,
\* data)`
Handler(outcome, w) ==
    /\ pc.at = "handler"
    /\ LET assigned == Assign(ctx.set, w)
           call == IF outcome = "status"
                   THEN ctxStatus(assigned, 201, HandlerValue(outcome))
                   ELSE [set |-> assigned, ret |-> HandlerValue(outcome)]
           wrote == IF outcome = "status" THEN ("status" :> 201) @@ w ELSE w
       IN  /\ log' = Append(log, LogEntry("route", "handler", None, call.ret,
                                          outcome, wrote))
           /\ ctx' = [ctx EXCEPT !.set = call.set]
           /\ IF Throws(outcome)
              THEN /\ EnterOnError(1, Thrown(outcome, "route"), None)
                   /\ UNCHANGED <<response, issues>>
              ELSE /\ EnterOnResponse(1, call.ret, call.set)
                   /\ UNCHANGED <<error, errorResponse>>
    /\ UNCHANGED <<otherVars, _routes, plugins, hooks, request, matched>>

\* response = await hooks.onResponse(ctx, response, this) || response; w is
\* what the hook assigns in ctx.set
OnResponseHook(outcome, w) ==
    /\ pc.at = "onResponse"
    /\ LET who == HookOrder[pc.i]
           ret == IF outcome = "value"
                  THEN Json(Append(IF response.type = "json" THEN response.marks
                                   ELSE <<>>, who))
                  ELSE IF outcome \in DOMAIN FalsyReturns THEN FalsyReturns[outcome]
                  ELSE None
           set == Assign(ctx.set, w)
       IN  /\ log' = Append(log, LogEntry(who, "onResponse", response, ret,
                                          outcome, w))
           /\ ctx' = [ctx EXCEPT !.set = set]
           /\ IF Throws(outcome)
              THEN /\ EnterOnError(1, Thrown(outcome, who), None)
                   /\ UNCHANGED <<response, issues>>
              ELSE /\ EnterOnResponse(pc.i + 1,
                                      IF Truthy(ret) THEN ret ELSE response, set)
                   /\ UNCHANGED <<error, errorResponse>>
    /\ UNCHANGED <<otherVars, _routes, plugins, hooks, request, matched>>

\* the first value an onError hook returned is kept
KeepFirst(ret, er) == IF Truthy(er) THEN er ELSE ret

\* await bxoInstance.hooks.onError(ctx, error, this) || errorResponse
OrErrorResponse(ret, er) == IF Truthy(ret) THEN ret ELSE er

\* errorResponse = await hooks.onError(ctx, error, this), and for a plugin's
\* hook `|| errorResponse`; a hook that throws is outside every try block
OnErrorHook(outcome) ==
    /\ pc.at = "onError"
    /\ LET who == HookOrder[pc.i]
           ret == IF outcome = "value" THEN Json(<<who>>)
                  ELSE IF outcome = "Response" THEN Response(503, [text |-> "recovered", by |-> who])
                  ELSE None
           er == IF pc.i = 1 THEN ret ELSE OrErrorResponse(ret, errorResponse)
       IN  /\ log' = Append(log, LogEntry(who, "onError", error, ret, outcome, NoSet))
           /\ IF Throws(outcome)
              THEN /\ pc' = Done
                   /\ result' = Rejected("onError")
                   /\ UNCHANGED <<error, errorResponse>>
              ELSE EnterOnError(pc.i + 1, error, er)
    /\ UNCHANGED <<otherVars, _routes, plugins, hooks, request, matched, response, ctx, issues>>

\* ---- two calls of handleRequest in flight ----
\* the locals of the running call
Locals ==
    [pc |-> pc, request |-> request, matched |-> matched, response |-> response,
     error |-> error, errorResponse |-> errorResponse, log |-> log,
     result |-> result, ctx |-> ctx, issues |-> issues]

\* the running call is at an await (it is about to call a callback) or has
\* returned: another call can run
AtAwait == pc.at \in {"onRequest", "handler", "onResponse", "onError", "done"}

\* one Context object used by every call
ContextInUse(task) == ctx

\* `let ctx: Context` is a local of each call, and each call builds its own
\* object
ContextOf(task) == task.ctx

\* a second request arrives while the first call is at an await:
\* handleRequest is called again and runs; the first call waits
Accept(req) ==
    /\ suspended = NoTask
    /\ AtAwait
    /\ suspended' = Locals
    /\ pc' = [at |-> "routing", i |-> 0]
    /\ request' = req
    /\ matched' = NotMatched
    /\ response' = None
    /\ error' = None
    /\ errorResponse' = None
    /\ log' = <<>>
    /\ result' = None
    /\ ctx' = ContextOf([ctx |-> NoContext])
    /\ issues' = {}
    /\ UNCHANGED <<lifecycleVars, _routes, plugins, hooks, _wsRoutes, server, store, now, registered>>

\* the running call is at an await and the waiting call goes on
Switch ==
    /\ suspended # NoTask
    /\ AtAwait
    /\ suspended' = Locals
    /\ pc' = suspended.pc
    /\ request' = suspended.request
    /\ matched' = suspended.matched
    /\ response' = suspended.response
    /\ error' = suspended.error
    /\ errorResponse' = suspended.errorResponse
    /\ log' = suspended.log
    /\ result' = suspended.result
    /\ ctx' = ContextOf(suspended)
    /\ issues' = suspended.issues
    /\ UNCHANGED <<lifecycleVars, _routes, plugins, hooks, _wsRoutes, server, store, now, registered>>

\* ---- the plugins' test of the exclude option ----
\* String.prototype.startsWith
startsWith(s, prefix) == Len(prefix) <= Len(s) /\ SubSeq(s, 1, Len(prefix)) = prefix

\* the first position >= from at which piece occurs in s; 0 when there is
\* none
IndexFrom(s, piece, from) ==
    LET at == {i \in from..(Len(s) - Len(piece) + 1) :
                  SubSeq(s, i, i + Len(piece) - 1) = piece}
    IN  IF at = {} THEN 0 ELSE CHOOSE i \in at : \A j \in at : i <= j

RECURSIVE PiecesFrom(_, _, _)
\* the literal pieces occur in s in this order, one after the other, from
\* position `from` on
PiecesFrom(pieces, s, from) ==
    IF pieces = <<>> THEN TRUE
    ELSE LET i == IndexFrom(s, Head(pieces), from)
         IN  i # 0 /\ PiecesFrom(Tail(pieces), s, i + Len(Head(pieces)))

\* new RegExp(path.replace(/\*/g, '.*')).test(pathname), for a path made
\* of letters, digits, '/' and '*': the expression is not anchored
regexTest(path, pathname) == PiecesFrom(splitOn(path, "*"), pathname, 1)

\* the test anchored at both ends, for a path whose one * is its last
\* character
regexTestAnchored(path, pathname) ==
    startsWith(pathname, SubSeq(path, 1, Len(path) - 1))

\* the test of one entry of exclude without the prefix rule
ExcludesExactly(path, pathname) ==
    IF \E i \in DOMAIN path : path[i] = "*" THEN regexTestAnchored(path, pathname)
    ELSE pathname = path

\* the test of one entry of exclude
Excludes(path, pathname) ==
    IF \E i \in DOMAIN path : path[i] = "*" THEN regexTest(path, pathname)
    ELSE pathname = path \/ startsWith(pathname, path)

\* exclude.some(path => ...)
IsExcluded(exclude, pathname) ==
    \E k \in DOMAIN exclude : Excludes(exclude[k], pathname)

\* ---- the rateLimit plugin ----
\* the options of the rateLimit() call of the model: max, window (seconds),
\* exclude, statusCode
RateLimitOptions ==
    [max |-> 2, window |-> 1, exclude |-> <<Chars("/health")>>, statusCode |-> 429,
     skipSuccessful |-> FALSE, skipFailed |-> FALSE]

\* the same options with skipSuccessful: true
SkipOptions == [RateLimitOptions EXCEPT !.skipSuccessful = TRUE]

\* RateLimitStore.get that takes an entry for expired at its reset time
storeGetAtReset(st, key, t) ==
    IF key \in DOMAIN st /\ t >= st[key].resetTime
    THEN [store |-> [k \in DOMAIN st \ {key} |-> st[k]], found |-> FALSE]
    ELSE [store |-> st, found |-> key \in DOMAIN st]

\* RateLimitStore.get at time t: an entry past its reset time is deleted
storeGet(st, key, t) ==
    IF key \in DOMAIN st /\ t > st[key].resetTime
    THEN [store |-> [k \in DOMAIN st \ {key} |-> st[k]], found |-> FALSE]
    ELSE [store |-> st, found |-> key \in DOMAIN st]

\* an increment that starts the window again with every request
incrementSliding(st, key, window, t) ==
    LET got == storeGet(st, key, t)
        entry == [count |-> IF got.found THEN got.store[key].count + 1 ELSE 1,
                  resetTime |-> t + window * 1000]
    IN  [store |-> (key :> entry) @@ got.store, entry |-> entry]

\* RateLimitStore.increment at time t
increment(st, key, window, t) ==
    LET got == storeGet(st, key, t)
        entry == IF got.found
                 THEN [count |-> got.store[key].count + 1,
                       resetTime |-> got.store[key].resetTime]
                 ELSE [count |-> 1, resetTime |-> t + window * 1000]
    IN  [store |-> (key :> entry) @@ got.store, entry |-> entry]

\* the default keyGenerator
keyGenerator(headers) ==
    IF ~get(headers, "x-forwarded-for").null /\ get(headers, "x-forwarded-for").value # <<>>
    THEN get(headers, "x-forwarded-for").value
    ELSE IF ~get(headers, "x-real-ip").null /\ get(headers, "x-real-ip").value # <<>>
    THEN get(headers, "x-real-ip").value
    ELSE Chars("unknown")

\* n.toString()
toString(n) == Chars(ToString(n))

\* Math.ceil(ms / 1000) and Math.floor(ms / 1000)
ceilSeconds(ms) == (ms + 999) \div 1000
floorSeconds(ms) == ms \div 1000

\* the onRequest hook of the rateLimit(o) instance is called for a request:
\* the log keeps the key, the time and the pathname, what the hook threw
\* and what it assigned in ctx.set
RateLimitOnRequestWith(o, req) ==
    /\ pc = Idle
    /\ LET key == keyGenerator(req.headers)
           arg == [key |-> key, at |-> now, pathname |-> req.pathname]
       IN  IF IsExcluded(o.exclude, req.pathname)
           THEN /\ store' = store
                /\ log' = Append(log, LogEntry("p1", "onRequest", arg, None,
                                               "excluded", NoSet))
           ELSE LET inc == increment(store, key, o.window, now)
                    entry == inc.entry
                    resetTime == ceilSeconds(entry.resetTime)
                IN  /\ store' = inc.store
                    /\ IF entry.count > o.max
                       THEN log' = Append(log, LogEntry("p1", "onRequest", arg,
                                ResponseWith(o.statusCode,
                                    [n \in {"Content-Type", "X-RateLimit-Limit",
                                            "X-RateLimit-Remaining", "X-RateLimit-Reset",
                                            "Retry-After"} |->
                                        CASE n = "Content-Type" -> ApplicationJson
                                          [] n = "X-RateLimit-Limit" -> toString(o.max)
                                          [] n = "X-RateLimit-Remaining" -> Chars("0")
                                          [] n = "X-RateLimit-Reset" -> toString(resetTime)
                                          [] OTHER -> toString(resetTime - floorSeconds(now))],
                                    JSONstringify([error |-> "Too many requests",
                                                   retryAfter |-> resetTime - floorSeconds(now)])),
                                "throwResponse", NoSet))
                       ELSE log' = Append(log, LogEntry("p1", "onRequest", arg, None,
                                "return",
                                "headers" :>
                                    [n \in {"X-RateLimit-Limit", "X-RateLimit-Remaining",
                                            "X-RateLimit-Reset"} |->
                                        CASE n = "X-RateLimit-Limit" -> toString(o.max)
                                          [] n = "X-RateLimit-Remaining" ->
                                                 toString(IF o.max > entry.count
                                                          THEN o.max - entry.count ELSE 0)
                                          [] OTHER -> toString(resetTime)]))
    /\ UNCHANGED <<lifecycleVars, _routes, plugins, hooks, pc, request, matched, response, error,
                   errorResponse, result, ctx, issues, _wsRoutes, server, suspended,
                   now, registered>>

\* the hook of rateLimit() with the options of the model
RateLimitOnRequest(req) == RateLimitOnRequestWith(RateLimitOptions, req)

\* the onResponse hook of the rateLimit(o) instance is called for the
\* request of the log entry i, whose onRequest hook returned and whose
\* handler has returned with ctx.set as given: with skipSuccessful or
\* skipFailed the count of the key is taken back
RateLimitOnResponseWith(o, i, set) ==
    /\ pc = Idle
    /\ i \in DOMAIN log
    /\ log[i].kind = "onRequest"
    /\ log[i].outcome \in {"return", "excluded"}
    /\ \A k \in DOMAIN log : ~(log[k].kind = "onResponse" /\ log[k].arg.of = i)
    /\ LET status == StatusOr200(set)
           key == log[i].arg.key
           skip == (o.skipSuccessful /\ status < 400) \/ (o.skipFailed /\ status >= 400)
           got == storeGet(store, key, now)
           arg == [key |-> key, at |-> now, pathname |-> log[i].arg.pathname, of |-> i]
       IN  /\ store' = IF ~skip THEN store
                       ELSE IF got.found /\ got.store[key].count > 0
                       THEN [got.store EXCEPT ![key].count = @ - 1]
                       ELSE got.store
           /\ log' = Append(log, LogEntry("p1", "onResponse", arg, None,
                                          IF skip THEN "skip" ELSE "count", NoSet))
    /\ UNCHANGED <<lifecycleVars, _routes, plugins, hooks, pc, request, matched,
                   response, error, errorResponse, result, ctx, issues, _wsRoutes,
                   server, suspended, now, registered>>

\* RateLimitStore.cleanup, called by the interval timer
Cleanup ==
    /\ pc = Idle
    /\ store' = [k \in {q \in DOMAIN store : ~(now > store[q].resetTime)} |-> store[k]]
    /\ UNCHANGED <<lifecycleVars, _routes, plugins, hooks, requestVars, _wsRoutes, server, suspended,
                   now, registered>>

\* half a second passes
Tick ==
    /\ now < MaxTicks * 500
    /\ now' = now + 500
    /\ UNCHANGED <<lifecycleVars, _routes, plugins, hooks, requestVars, _wsRoutes, server, suspended,
                   store, registered>>

\* ---- the auth plugin ----
\* the options of the auth() call of the model: bearer tokens in the default
\* header, no verify function
AuthOptions ==
    [type |-> "bearer", header |-> "authorization",
     exclude |-> <<Chars("/login"), Chars("/api/*")>>]

\* the 401 Response the hook throws
Unauthorized(message) ==
    ResponseWith(401, "Content-Type" :> ApplicationJson,
                 JSONstringify([error |-> message]))

RECURSIVE joinWith(_, _)
\* Array.prototype.join(separator)
joinWith(list, separator) ==
    IF list = <<>> THEN <<>>
    ELSE IF Len(list) = 1 THEN list[1]
    ELSE list[1] \o separator \o joinWith(Tail(list), separator)

\* ---- JSON Web Tokens ----
\* the characters of the texts of the model, and the eight symbols their
\* encoding is written with
Latin1 == Chars("{}\":,.-0123456789abcdefghijklmnopqrstuvwxyzABCDEFGHJSTW")

Base64Symbols == Chars("ABCDEFGH")

\* the position of a character in a sequence of distinct characters, 0 when
\* it is not in it
IndexIn(alphabet, c) ==
    IF \E i \in DOMAIN alphabet : alphabet[i] = c
    THEN CHOOSE i \in DOMAIN alphabet : alphabet[i] = c
    ELSE 0

\* btoa(text): the text in an alphabet without '.', two symbols for each
\* character
btoa(text) ==
    [k \in 1..(2 * Len(text)) |->
        LET i == IndexIn(Latin1, text[(k + 1) \div 2]) - 1
        IN  Base64Symbols[IF k % 2 = 1 THEN (i \div 8) + 1 ELSE (i % 8) + 1]]

\* atob(encoded): the text that was encoded; it throws for what is not an
\* encoding
atob(encoded) ==
    LET code(k) == (IndexIn(Base64Symbols, encoded[2 * k - 1]) - 1) * 8
                   + IndexIn(Base64Symbols, encoded[2 * k])
    IN  IF /\ Len(encoded) % 2 = 0
           /\ \A k \in DOMAIN encoded : IndexIn(Base64Symbols, encoded[k]) # 0
           /\ \A k \in 1..(Len(encoded) \div 2) : code(k) <= Len(Latin1)
        THEN [ok |-> TRUE, val |-> [k \in 1..(Len(encoded) \div 2) |-> Latin1[code(k)]]]
        ELSE [ok |-> FALSE, val |-> <<>>]

\* JSON.stringify of a token payload: the members sub, iat and exp it has,
\* in this order
JSONtext(value) ==
    LET member(name) ==
            Chars("\"") \o Chars(name) \o Chars("\":")
            \o (IF name = "sub" THEN Chars("\"") \o Chars(value[name]) \o Chars("\"")
                ELSE toString(value[name]))
        present == SelectSeq(<<"sub", "iat", "exp">>, LAMBDA n : n \in DOMAIN value)
    IN  Chars("{") \o joinWith([k \in DOMAIN present |-> member(present[k])], Chars(","))
        \o Chars("}")

\* the payloads a token of the model can carry
Subjects == {"a", "b"}

ClaimTimes == (0 - 1)..(MaxTicks \div 2 + 2)

Payloads ==
    [sub : Subjects] \cup [sub : Subjects, exp : ClaimTimes]
    \cup [sub : Subjects, iat : ClaimTimes, exp : ClaimTimes]

\* JSON.parse(text): the payload whose text it is; it throws for any other
\* text
JSONparse(text) ==
    LET of == {value \in Payloads : JSONtext(value) = text}
    IN  IF of = {} THEN [ok |-> FALSE, val |-> None]
        ELSE [ok |-> TRUE, val |-> CHOOSE value \in of : TRUE]

\* String.prototype.split(sep) for a one-character separator, computed from
\* the positions of the separators (for long texts)
splitAt(text, sep) ==
    LET at == {i \in DOMAIN text : text[i] = sep}
        nth(k) == IF k = 0 THEN 0
                  ELSE IF k > Cardinality(at) THEN Len(text) + 1
                  ELSE CHOOSE i \in at : Cardinality({j \in at : j < i}) = k - 1
    IN  [k \in 1..(Cardinality(at) + 1) |-> SubSeq(text, nth(k - 1) + 1, nth(k) - 1)]

\* the header of every token
JwtHeader == Chars("{\"alg\":\"HS256\",\"typ\":\"JWT\"}")

\* the signature part createJWT derives from the two other parts and the
\* secret
Signature(headerB64, payloadB64, secret) ==
    btoa(headerB64 \o Chars(".") \o payloadB64 \o Chars(".") \o secret)

\* the three parts of a token, joined
Token(headerB64, payloadB64, signature) ==
    headerB64 \o Chars(".") \o payloadB64 \o Chars(".") \o signature

\* createJWT(payload, secret, expiresIn), called when Math.floor(Date.now()
\* / 1000) is `seconds`
createJWTAt(payload, secret, expiresIn, seconds) ==
    LET jwtPayload == [n \in DOMAIN payload \cup {"iat", "exp"} |->
                         IF n = "iat" THEN seconds
                         ELSE IF n = "exp" THEN seconds + expiresIn
                         ELSE payload[n]]
        headerB64 == btoa(JwtHeader)
        payloadB64 == btoa(JSONtext(jwtPayload))
    IN  Token(headerB64, payloadB64, Signature(headerB64, payloadB64, secret))

\* createJWT(payload, secret, expiresIn), called now
createJWT(payload, secret, expiresIn) ==
    createJWTAt(payload, secret, expiresIn, floorSeconds(now))

\* the options of auth({type: 'jwt', secret}) of the model
JwtOptions ==
    [type |-> "jwt", header |-> "authorization", exclude |-> <<>>, secret |-> Chars("k")]

\* the try block of the hook: the user the token stands for, or the
\* message of what was thrown
Verified(o, token) ==
    IF o.type = "jwt" /\ o.secret # <<>>
    THEN LET parts == splitAt(token, ".")
         IN  IF Len(parts) < 3 \/ \E k \in 1..3 : parts[k] = <<>>
             THEN [ok |-> FALSE, message |-> "Invalid JWT format"]
             ELSE LET text == atob(parts[2])
                      payload == JSONparse(text.val)
                  IN  IF ~text.ok THEN [ok |-> FALSE, message |-> "InvalidCharacterError"]
                      ELSE IF ~payload.ok THEN [ok |-> FALSE, message |-> "SyntaxError"]
                      ELSE IF /\ "exp" \in DOMAIN payload.val
                              /\ payload.val.exp # 0
                              /\ now >= payload.val.exp * 1000
                      THEN [ok |-> FALSE, message |-> "Token expired"]
                      ELSE [ok |-> TRUE, user |-> payload.val]
    ELSE [ok |-> TRUE, user |-> [token |-> token]]

\* the onRequest function of auth(o) is the application's onRequest hook:
\* it returns for an excluded pathname, throws a 401 Response without the
\* header, without "Bearer " in front or for a token that is not verified,
\* and else assigns ctx.user
AuthOnRequestWith(o) ==
    /\ pc.at = "onRequest"
    /\ HookOrder[pc.i] = Dispatcher
    /\ hooks[Dispatcher].onRequest = "auth"
    /\ LET authHeader == get(request.headers, o.header)
           missing == authHeader.null \/ authHeader.value = <<>>
           token == SubSeq(authHeader.value, 8, Len(authHeader.value))
           verified == Verified(o, token)
           thrown == IF missing THEN Unauthorized("Authorization header required")
                     ELSE IF ~startsWith(authHeader.value, Chars("Bearer "))
                     THEN Unauthorized("Invalid authorization format. Use Bearer <token>")
                     ELSE Unauthorized(verified.message)
       IN  IF IsExcluded(o.exclude, request.pathname)
           THEN /\ log' = Append(log, LogEntry(Dispatcher, "onRequest", [at |-> now], None,
                                               "excluded", NoSet))
                /\ EnterOnRequest(pc.i + 1)
                /\ UNCHANGED <<ctx, response, error, errorResponse, result, issues>>
           ELSE IF \/ missing
                   \/ ~startsWith(authHeader.value, Chars("Bearer "))
                   \/ ~verified.ok
           THEN /\ log' = Append(log, LogEntry(Dispatcher, "onRequest", [at |-> now], thrown,
                                               "throwResponse", NoSet))
                /\ EnterOnError(1, thrown, None)
                /\ UNCHANGED <<ctx, response, issues>>
           ELSE /\ log' = Append(log, LogEntry(Dispatcher, "onRequest", [at |-> now], None,
                                               "return", NoSet))
                /\ ctx' = ("user" :> verified.user) @@ ctx
                /\ EnterOnRequest(pc.i + 1)
                /\ UNCHANGED <<response, error, errorResponse, result, issues>>
    /\ UNCHANGED <<otherVars, _routes, plugins, hooks, request, matched>>

\* the hook of auth() with the bearer options of the model
AuthOnRequest == AuthOnRequestWith(AuthOptions)

\* ---- the cors plugin ----
\* the defaults of cors(): origin, methods, allowedHeaders, credentials and
\* maxAge
CorsOptions ==
    [origin |-> Chars("*"),
     methods |-> <<Chars("GET"), Chars("POST"), Chars("PUT"), Chars("DELETE"),
                   Chars("PATCH"), Chars("OPTIONS")>>,
     allowedHeaders |-> <<Chars("Content-Type"), Chars("Authorization")>>,
     credentials |-> FALSE,
     maxAge |-> 86400]

\* the headers the preflight branch builds
PreflightHeaders ==
    LET o == CorsOptions
        names == {"Access-Control-Allow-Origin", "Access-Control-Allow-Methods",
                  "Access-Control-Allow-Headers", "Access-Control-Max-Age"}
                 \cup IF o.credentials THEN {"Access-Control-Allow-Credentials"} ELSE {}
    IN  [n \in names |->
            CASE n = "Access-Control-Allow-Origin" -> o.origin
              [] n = "Access-Control-Allow-Methods" -> joinWith(o.methods, Chars(", "))
              [] n = "Access-Control-Allow-Headers" -> joinWith(o.allowedHeaders, Chars(", "))
              [] n = "Access-Control-Max-Age" -> toString(o.maxAge)
              [] OTHER -> Chars("true")]

\* new Response(null, {status: 204, headers})
Preflight == ResponseWith(204, PreflightHeaders, Null)

\* the application's onRequest hook is the onRequest function of cors():
\* for the method OPTIONS it assigns ctx.set.status and ctx.set.headers and
\* throws the 204 Response, for every other method it returns
CorsOnRequest ==
    /\ pc.at = "onRequest"
    /\ HookOrder[pc.i] = Dispatcher
    /\ hooks[Dispatcher].onRequest = "cors"
    /\ IF request.method = "OPTIONS"
       THEN LET w == [k \in {"status", "headers"} |->
                        IF k = "status" THEN 204
                        ELSE PreflightHeaders @@ SetHeaders(ctx.set)]
            IN  /\ log' = Append(log, LogEntry(Dispatcher, "onRequest", None, Preflight,
                                               "throwResponse", w))
                /\ ctx' = [ctx EXCEPT !.set = Assign(@, w)]
                /\ EnterOnError(1, Preflight, None)
                /\ UNCHANGED <<response, issues>>
       ELSE /\ log' = Append(log, LogEntry(Dispatcher, "onRequest", None, None,
                                           "return", NoSet))
            /\ EnterOnRequest(pc.i + 1)
            /\ UNCHANGED <<ctx, response, error, errorResponse, result, issues>>
    /\ UNCHANGED <<otherVars, _routes, plugins, hooks, request, matched>>

\* the application's onResponse hook is the onResponse function of cors():
\* it adds Access-Control-Allow-Origin to ctx.set.headers and returns the
\* response it was given
CorsOnResponse ==
    /\ pc.at = "onResponse"
    /\ HookOrder[pc.i] = Dispatcher
    /\ hooks[Dispatcher].onResponse = "cors"
    /\ LET o == CorsOptions
           headers == [n \in {"Access-Control-Allow-Origin"}
                             \cup IF o.credentials
                                  THEN {"Access-Control-Allow-Credentials"} ELSE {} |->
                         IF n = "Access-Control-Allow-Origin" THEN o.origin
                         ELSE Chars("true")]
           w == "headers" :> (headers @@ SetHeaders(ctx.set))
           set == Assign(ctx.set, w)
       IN  /\ log' = Append(log, LogEntry(Dispatcher, "onResponse", response, response,
                                          "value", w))
           /\ ctx' = [ctx EXCEPT !.set = set]
           /\ EnterOnResponse(pc.i + 1, response, set)
           /\ UNCHANGED <<error, errorResponse>>
    /\ UNCHANGED <<otherVars, _routes, plugins, hooks, request, matched>>

\* ---- start() and stop() ----
\* the four lifecycle hooks of BXO.hooks
LifecycleKinds == {"onBeforeStart", "onAfterStart", "onBeforeStop", "onAfterStop"}

\* `if (this.hooks.<kind>)`
HasHook(kind) ==
    kind \in DOMAIN hooks[Dispatcher] /\ hooks[Dispatcher][kind] # NoCallback

\* the fields start() and stop() read and assign, and the history
Lifecycle ==
    [isRunning |-> isRunning, thisServer |-> thisServer, servers |-> servers,
     events |-> events]

\* an entry of the history: the call, what it did, and the hook or the
\* server it did it with
Event(c, what, hook, id) == [call |-> c, what |-> what, hook |-> hook, id |-> id]

\* a call has settled
Settled == {"resolved", "rejected"}

\* `await this.hooks.<kind>(this)` when the hook is registered: the hook is
\* called and the call waits for its promise
AwaitHook(L, c, kind) ==
    [L EXCEPT !.events = Append(@, Event(c, "call", kind, 0))] @@ [at |-> kind]

\* start() from Bun.serve on: Bun.serve throws when the port is taken by a
\* listening server, else the server is created, this.server refers to it
\* and isRunning becomes true; then the onAfterStart hook is awaited
Serve(L, c, port) ==
    IF \E k \in DOMAIN L.servers :
          L.servers[k].port = port /\ L.servers[k].state = "listening"
    THEN [L EXCEPT !.events = Append(@, Event(c, "serveFailed", "none", 0))]
         @@ [at |-> "rejected"]
    ELSE LET id == Len(L.servers) + 1
             started == [L EXCEPT
                           !.servers = Append(@, [port |-> port, state |-> "listening"]),
                           !.thisServer = id,
                           !.isRunning = TRUE,
                           !.events = Append(@, Event(c, "serve", "none", id))]
         IN  IF HasHook("onAfterStart") THEN AwaitHook(started, c, "onAfterStart")
             ELSE started @@ [at |-> "resolved"]

\* start() without the test of isRunning
BeginStartUnguarded(L, c, port) ==
    IF HasHook("onBeforeStart") THEN AwaitHook(L, c, "onBeforeStart")
    ELSE Serve(L, c, port)

\* start() up to its first await
BeginStart(L, c, port) ==
    IF L.isRunning THEN L @@ [at |-> "resolved"]
    ELSE IF HasHook("onBeforeStart") THEN AwaitHook(L, c, "onBeforeStart")
    ELSE Serve(L, c, port)

\* the catch block of stop(): the state is reset and the error thrown again
ResetState(L, c) ==
    [L EXCEPT !.isRunning = FALSE, !.thisServer = 0,
              !.events = Append(@, Event(c, "reset", "none", 0))]
    @@ [at |-> "rejected"]

\* stop() from `if (this.server)` on: server.stop(), the reference and the
\* state are cleared; then the onAfterStop hook is awaited
StopServer(L, c) ==
    LET stopped == IF L.thisServer = 0 THEN L
                   ELSE [L EXCEPT
                           !.servers[L.thisServer].state = "stopped",
                           !.events = Append(@, Event(c, "server.stop", "none",
                                                      L.thisServer)),
                           !.thisServer = 0]
        cleared == [stopped EXCEPT
                      !.isRunning = FALSE,
                      !.events = Append(@, Event(c, "cleared", "none", 0))]
    IN  IF HasHook("onAfterStop") THEN AwaitHook(cleared, c, "onAfterStop")
        ELSE cleared @@ [at |-> "resolved"]

\* stop() up to its first await
BeginStop(L, c) ==
    IF ~L.isRunning THEN L @@ [at |-> "resolved"]
    ELSE IF HasHook("onBeforeStop") THEN AwaitHook(L, c, "onBeforeStop")
    ELSE StopServer(L, c)

\* the promise of the awaited hook has settled: the hook returned or threw
HookSettled(L, c, kind, outcome) ==
    [L EXCEPT !.events = Append(@, Event(c, outcome, kind, 0))]

\* a call continues after its await
Continue(L, c, call, outcome) ==
    LET after == HookSettled(L, c, call.at, outcome)
    IN  CASE call.at = "onBeforeStart" ->
                IF outcome = "throw" THEN after @@ [at |-> "rejected"]
                ELSE Serve(after, c, call.port)
          [] call.at = "onAfterStart" ->
                after @@ [at |-> IF outcome = "throw" THEN "rejected" ELSE "resolved"]
          [] call.at = "onBeforeStop" ->
                IF outcome = "throw" THEN ResetState(after, c)
                ELSE StopServer(after, c)
          [] OTHER ->
                IF outcome = "throw" THEN ResetState(after, c)
                ELSE after @@ [at |-> "resolved"]

\* BXO.isServerRunning()
isServerRunning == isRunning /\ thisServer # 0

\* the fields and the history become those of L
Becomes(L) ==
    /\ isRunning' = L.isRunning
    /\ thisServer' = L.thisServer
    /\ servers' = L.servers
    /\ events' = L.events

\* app.start(port) is called and runs up to its first await or its end
Start(port) ==
    /\ Len(lifecycleCalls) < MaxLifecycleCalls
    /\ LET c == Len(lifecycleCalls) + 1
           L == BeginStart(Lifecycle, c, port)
       IN  /\ lifecycleCalls' = Append(lifecycleCalls,
                                       [op |-> "start", port |-> port, at |-> L.at])
           /\ Becomes(L)
    /\ UNCHANGED <<_routes, plugins, hooks, requestVars, _wsRoutes, server, suspended,
                   store, now, registered>>

\* app.stop() is called and runs up to its first await or its end
Stop ==
    /\ Len(lifecycleCalls) < MaxLifecycleCalls
    /\ LET c == Len(lifecycleCalls) + 1
           L == BeginStop(Lifecycle, c)
       IN  /\ lifecycleCalls' = Append(lifecycleCalls,
                                       [op |-> "stop", port |-> 0, at |-> L.at])
           /\ Becomes(L)
    /\ UNCHANGED <<_routes, plugins, hooks, requestVars, _wsRoutes, server, suspended,
                   store, now, registered>>

\* the hook a call is waiting for returns or throws, and the call runs on
\* to its next await or its end
Resume(c, outcome) ==
    /\ c \in DOMAIN lifecycleCalls
    /\ lifecycleCalls[c].at \notin Settled
    /\ LET L == Continue(Lifecycle, c, lifecycleCalls[c], outcome)
       IN  /\ lifecycleCalls' = [lifecycleCalls EXCEPT ![c].at = L.at]
           /\ Becomes(L)
    /\ UNCHANGED <<_routes, plugins, hooks, requestVars, _wsRoutes, server, suspended,
                   store, now, registered>>

\* the response has been handed to the transport: the next request can come
Finish ==
    /\ pc = Done
    /\ pc' = Idle
    /\ request' = NoRequest
    /\ matched' = NotMatched
    /\ response' = None
    /\ error' = None
    /\ errorResponse' = None
    /\ log' = <<>>
    /\ result' = None
    /\ ctx' = NoContext
    /\ issues' = {}
    /\ UNCHANGED <<otherVars, _routes, plugins, hooks>>

\* ------------------------------------------------------------------------
\* Specifications
\* ------------------------------------------------------------------------
\* "/users/:id"
UsersId == <<"/", "u", "s", "e", "r", "s", "/", ":", "i", "d">>

\* "/users/42%20a"
Users42a == <<"/", "u", "s", "e", "r", "s", "/", "4", "2", "%", "2", "0", "a">>

NumRoutes == Len(_routes["app"]) + Len(_routes["p1"]) + Len(_routes["p2"])

NumHooks == Cardinality({<<e, k>> \in Engines \X HookKinds : hooks[e][k] # NoCallback})

\* the dispatch steps of one request whose callbacks leave ctx.set alone
Dispatch ==
    \/ RouteRequest
    \/ Validate
    \/ \E o \in OnRequestOutcomes : OnRequestHook(o, NoSet)
    \/ \E o \in HandlerOutcomes : Handler(o, NoSet)
    \/ \E o \in OnResponseOutcomes : OnResponseHook(o, NoSet)
    \/ \E o \in OnErrorOutcomes : OnErrorHook(o)
    \/ Finish

\* Spec: instances are constructed, configured through the fluent API and
\* the application instance dispatches requests
Init == Constructed /\ NoRequestInFlight /\ RegisteredOnce

Configure ==
    \/ NumRoutes < MaxRoutes /\ RegisterRoute(Dispatcher, "GET", UsersId, {"query"})
    \/ \E child \in Engines \ {Dispatcher} :
          Len(plugins[Dispatcher]) < MaxPlugins /\ Use(Dispatcher, child)
    \/ \E e \in Engines, k \in HookKinds :
          NumHooks < MaxHooks /\ hooks[e][k] = NoCallback /\ RegisterHook(e, k, "f")

Next ==
    \/ Configure
    \/ \E m \in Methods : Receive(m, Users42a)
    \/ Dispatch

Spec == Init /\ [][Next]_vars

\* SpecValid: the application has one POST route, whose config declares a
\* schema for any set of the five parts, and embeds p1 and p2; either no
\* hook is registered or every instance has all three
AllHooks == [k \in HookKinds |-> "f"]

InitValid ==
    /\ HttpOnly
    /\ \E c \in SUBSET PartSet :
          _routes = [e \in Engines |->
                       IF e = Dispatcher THEN <<Route("POST", UsersId, c)>> ELSE <<>>]
    /\ plugins = [e \in Engines |-> IF e = Dispatcher THEN <<"p1", "p2">> ELSE <<>>]
    /\ \E h \in {NoHooks, AllHooks} : hooks = [e \in Engines |-> h]
    /\ NoRequestInFlight
    /\ RegisteredOnce

NextValid ==
    \/ Receive("POST", Users42a)
    \/ Dispatch

SpecValid == InitValid /\ [][NextValid]_vars

\* SpecSeg: the application has one GET route whose pattern is built from at
\* most MaxPatSegs segments, and a GET request has arrived whose pathname is
\* built from at most MaxPathSegs segments; matchRoute is applied to it
Users == <<"u", "s", "e", "r", "s">>

\* the pattern segments: empty, literal, named, wildcard
PatSegs == {<<>>, Users, <<":", "i", "d">>, <<"*">>, <<"A">>}

\* the pathname segments: empty, plain, with escapes ("42%20a", "%41"), and
\* with a malformed escape ("%4")
PathSegs == {<<>>, Users, <<"4", "2", "%", "2", "0", "a">>, <<"%", "4", "1">>,
             <<"%", "4">>}

SeqsUpTo(S, n) == UNION {[1..k -> S] : k \in 0..n}

\* "/" followed by the segments joined by "/"
PathOf(segs) == <<"/">> \o join(segs)

Patterns == {PathOf(segs) : segs \in SeqsUpTo(PatSegs, MaxPatSegs)}

Pathnames == {PathOf(segs) : segs \in SeqsUpTo(PathSegs, MaxPathSegs)}

\* a request has just been received
ReceivedRequest(req) ==
    /\ pc = [at |-> "routing", i |-> 0]
    /\ request = req
    /\ matched = NotMatched
    /\ response = None
    /\ error = None
    /\ errorResponse = None
    /\ log = <<>>
    /\ result = None
    /\ ctx = NoContext
    /\ issues = {}

\* a request for (method, pathname) without headers has just been received
Received(method, pathname) == ReceivedRequest(Request(method, pathname, NoHeaders))

InitSeg ==
    /\ HttpOnly
    /\ \E pattern \in Patterns :
          _routes = [e \in Engines |->
                       IF e = Dispatcher THEN <<Route("GET", pattern, {})>> ELSE <<>>]
    /\ plugins = [e \in Engines |-> <<>>]
    /\ hooks = [e \in Engines |-> NoHooks]
    /\ \E pathname \in Pathnames : Received("GET", pathname)
    /\ RegisteredOnce

NextSeg == RouteRequest

SpecSeg == InitSeg /\ [][NextSeg]_vars

\* SpecMatch: the application has up to MaxOwnRoutes routes and embeds up to
\* MaxPlugins instances that have up to MaxRoutes routes each; a request for
\* "/a/b" has arrived and matchRoute is applied to it
\* "/a/:x"
PatAX == <<"/", "a", "/", ":", "x">>

\* "/a/b"
PatAB == <<"/", "a", "/", "b">>

MatchRouteDefs == {Route("GET", PatAX, {}), Route("GET", PatAB, {}),
                   Route("POST", PatAB, {})}

InitMatch ==
    /\ HttpOnly
    /\ \E own \in SeqsUpTo(MatchRouteDefs, MaxOwnRoutes),
          r1 \in SeqsUpTo(MatchRouteDefs, MaxRoutes),
          r2 \in SeqsUpTo(MatchRouteDefs, MaxRoutes) :
          _routes = [e \in Engines |->
                       IF e = Dispatcher THEN own ELSE IF e = "p1" THEN r1 ELSE r2]
    /\ \E ps \in SeqsUpTo(Engines \ {Dispatcher}, MaxPlugins) :
          plugins = [e \in Engines |-> IF e = Dispatcher THEN ps ELSE <<>>]
    /\ hooks = [e \in Engines |-> NoHooks]
    /\ \E m \in Methods : Received(m, PatAB)
    /\ RegisteredOnce

NextMatch == RouteRequest

SpecMatch == InitMatch /\ [][NextMatch]_vars

\* SpecResp: the application has one GET route whose config has no response
\* schema, one schema, schemas keyed by any set of ConfigStatuses, or a
\* schema for 404 only; it has no hook, or an onResponse and an onError
\* hook; the handler and the onResponse hook assign ctx.set.status or leave
\* it alone
ConfigStatuses == {200, 201, 400, 500}

ResponseConfigs ==
    {None} \cup {OneSchema(a) : a \in Schemas}
        \cup {ByStatus(m) : m \in UNION {[D -> Schemas] : D \in SUBSET ConfigStatuses}}
        \cup {ByStatus(404 :> a) : a \in Schemas}

\* ctx.set.status = 201 / 400 / 404, or no assignment
StatusWrites == {NoSet} \cup {"status" :> code : code \in {201, 400, 404}}

ResponseAndErrorHooks == [NoHooks EXCEPT !["onResponse"] = "f", !["onError"] = "f"]

InitResp ==
    /\ HttpOnly
    /\ \E rc \in ResponseConfigs :
          _routes = [e \in Engines |->
                       IF e = Dispatcher THEN <<RouteWith("GET", UsersId, {}, rc)>>
                       ELSE <<>>]
    /\ plugins = [e \in Engines |-> <<>>]
    /\ \E h \in {NoHooks, ResponseAndErrorHooks} :
          hooks = [e \in Engines |-> IF e = Dispatcher THEN h ELSE NoHooks]
    /\ Received("GET", Users42a)
    /\ RegisteredOnce

NextResp ==
    \/ RouteRequest
    \/ Validate
    \/ \E o \in {"json", "status", "Response", "throwError"}, w \in StatusWrites :
          Handler(o, w)
    \/ \E o \in {"undefined", "value"}, w \in StatusWrites : OnResponseHook(o, w)
    \/ OnErrorHook("value")

SpecResp == InitResp /\ [][NextResp]_vars

\* SpecSet: the application has one GET route without schemas and either no
\* hook or an onRequest and an onResponse hook; the handler returns a value
\* of any kind and assigns any of ctx.set.status, ctx.set.headers and
\* ctx.set.cookies (up to MaxCookies cookies); the hooks make one assignment
\* or none
NoOptions == [k \in {} |-> <<>>]

\* the cookies of the model
CookieJar ==
    {createCookie(Chars("a"), Chars("x y"), NoOptions),
     createCookie(Chars("b"), Chars("1"),
                  [path |-> Chars("/"), httpOnly |-> TRUE, maxAge |-> 60]),
     createCookie(Chars("a"), <<>>, [secure |-> TRUE, sameSite |-> Chars("Lax")])}

\* the values of ctx.set.headers of the model
HeaderSets ==
    {"Content-Type" :> Chars("text/html"),
     "X-Id" :> Chars("1"),
     ("Set-Cookie" :> Chars("legacy=1")) @@ ("X-Id" :> Chars("2"))}

\* the assignments the handler makes in ctx.set: each property is assigned
\* or left alone
SetWrites ==
    {s @@ h @@ c :
        s \in {NoSet} \cup {"status" :> code : code \in {201, 404}},
        h \in {NoSet} \cup {"headers" :> hs : hs \in HeaderSets},
        c \in {NoSet} \cup {"cookies" :> cs : cs \in SeqsUpTo(CookieJar, MaxCookies)}}

\* the assignments a hook makes in ctx.set
HookWrites ==
    {NoSet, "status" :> 404, "headers" :> ("X-Id" :> Chars("1")),
     "cookies" :> <<createCookie(Chars("b"), Chars("1"), NoOptions)>>}

RequestAndResponseHooks == [NoHooks EXCEPT !["onRequest"] = "f", !["onResponse"] = "f"]

InitSet ==
    /\ HttpOnly
    /\ _routes = [e \in Engines |->
                    IF e = Dispatcher THEN <<Route("GET", UsersId, {})>> ELSE <<>>]
    /\ plugins = [e \in Engines |-> <<>>]
    /\ \E h \in {NoHooks, RequestAndResponseHooks} :
          hooks = [e \in Engines |-> IF e = Dispatcher THEN h ELSE NoHooks]
    /\ Received("GET", Users42a)
    /\ RegisteredOnce

NextSet ==
    \/ RouteRequest
    \/ Validate
    \/ \E w \in HookWrites : OnRequestHook("return", w)
    \/ \E o \in {"json", "status", "Response", "string", "File", "FileUntyped",
                 "file()", "object"}, w \in SetWrites : Handler(o, w)
    \/ \E o \in {"undefined", "value"}, w \in HookWrites : OnResponseHook(o, w)

SpecSet == InitSet /\ [][NextSet]_vars

\* SpecCookie: the application has one GET route without schemas; a GET
\* request has arrived without a Cookie header, with one made of up to
\* MaxCookiePieces pieces, or with the name=value part of the Set-Cookie
\* line of a cookie of TripCookies; it is routed and parsed
CookiePieces ==
    {Chars("a"), Chars("="), Chars(";"), Chars(" "), Chars("%41"), Chars("%3D"),
     Chars("%4")}

RECURSIVE Concat(_)
Concat(pieces) == IF pieces = <<>> THEN <<>> ELSE Head(pieces) \o Concat(Tail(pieces))

\* the cookie values of TripCookies: up to MaxValuePieces of these characters
ValuePieces == {"x", ";", "=", " ", "%"}

TripCookies ==
    {createCookie(name, value, options) :
        name \in {Chars("a"), Chars("a b")},
        value \in SeqsUpTo(ValuePieces, MaxValuePieces),
        options \in {NoOptions, [path |-> Chars("/"), secure |-> TRUE]}}

\* what a client sends back for a Set-Cookie line: its part before the
\* attributes
NameValuePart(line) == Head(splitOn(line, ";"))

CookieHeaders ==
    {Concat(pieces) : pieces \in SeqsUpTo(CookiePieces, MaxCookiePieces)}
        \cup {NameValuePart(cookieString(c)) : c \in TripCookies}

InitCookie ==
    /\ HttpOnly
    /\ _routes = [e \in Engines |->
                    IF e = Dispatcher THEN <<Route("GET", UsersId, {})>> ELSE <<>>]
    /\ plugins = [e \in Engines |-> <<>>]
    /\ hooks = [e \in Engines |-> NoHooks]
    /\ \E hs \in {NoHeaders} \cup {"cookie" :> h : h \in CookieHeaders} :
          ReceivedRequest(Request("GET", Users42a, hs))
    /\ RegisteredOnce

NextCookie ==
    \/ RouteRequest
    \/ Validate

SpecCookie == InitCookie /\ [][NextCookie]_vars

\* SpecChain: the application has one GET route and embeds p1 and p2; any
\* of the three instances has an onResponse hook; a GET request has
\* arrived; the handler returns a plain value, a string or a Response and
\* each onResponse hook returns a falsy value or a value of its own
InitChain ==
    /\ HttpOnly
    /\ _routes = [e \in Engines |->
                    IF e = Dispatcher THEN <<Route("GET", UsersId, {})>> ELSE <<>>]
    /\ plugins = [e \in Engines |-> IF e = Dispatcher THEN <<"p1", "p2">> ELSE <<>>]
    /\ \E with \in SUBSET Engines :
          hooks = [e \in Engines |->
                     IF e \in with THEN [NoHooks EXCEPT !["onResponse"] = "f"]
                     ELSE NoHooks]
    /\ Received("GET", Users42a)
    /\ RegisteredOnce

NextChain ==
    \/ RouteRequest
    \/ Validate
    \/ \E o \in {"json", "string", "Response"} : Handler(o, NoSet)
    \/ \E o \in DOMAIN FalsyReturns \cup {"value"} : OnResponseHook(o, NoSet)

SpecChain == InitChain /\ [][NextChain]_vars

\* SpecCompose: up to MaxCalls registration calls are made on the three
\* instances in any order: get() with one of three patterns, ws(), use()
\* along app -> p1, app -> p2 and p1 -> p2, and onRequest / onResponse /
\* onError; between them the application dispatches GET /a/b, as a plain
\* request or as a WebSocket upgrade that the server accepts
NumWSRoutes == Len(_wsRoutes["app"]) + Len(_wsRoutes["p1"]) + Len(_wsRoutes["p2"])

NumUses == Len(plugins["app"]) + Len(plugins["p1"]) + Len(plugins["p2"])

NumCalls == NumRoutes + NumWSRoutes + NumUses + NumHooks

UpgradeWebsocket == "upgrade" :> Chars("websocket")

InitCompose ==
    /\ _routes = [e \in Engines |-> <<>>]
    /\ _wsRoutes = [e \in Engines |-> <<>>]
    /\ plugins = [e \in Engines |-> <<>>]
    /\ hooks = [e \in Engines |-> NoHooks]
    /\ server = Server(TRUE)
    /\ suspended = NoTask
    /\ store = NoStore
    /\ now = 0
    /\ NotStarted
    /\ RegisteredOnce
    /\ NoRequestInFlight

ConfigureCompose ==
    /\ NumCalls < MaxCalls
    /\ \/ \E e \in Engines, path \in {PatAX, PatAB, UsersId} :
             RegisterRoute(e, "GET", path, {})
       \/ \E e \in Engines : RegisterWS(e, PatAB)
       \/ \E edge \in {<<"app", "p1">>, <<"app", "p2">>, <<"p1", "p2">>} :
             Use(edge[1], edge[2])
       \/ \E e \in Engines, k \in HookKinds :
             hooks[e][k] = NoCallback /\ RegisterHook(e, k, "f")

NextCompose ==
    \/ ConfigureCompose
    \/ \E hs \in {NoHeaders, UpgradeWebsocket} : ReceiveRequest(Request("GET", PatAB, hs))
    \/ RouteRequest
    \/ Validate
    \/ OnRequestHook("return", NoSet)
    \/ \E o \in {"json", "throwError"} : Handler(o, NoSet)
    \/ OnResponseHook("undefined", NoSet)
    \/ OnErrorHook("undefined")
    \/ Finish

SpecCompose == InitCompose /\ [][NextCompose]_vars

\* SpecHooks: the application has one GET route and embeds p1; the
\* callbacks f and g are registered, up to MaxRegistrations times each
\* kind, as hooks of the application and as onRequest hook of p1, and
\* between the registrations the application dispatches a GET request
InitHooks ==
    /\ HttpOnly
    /\ _routes = [e \in Engines |->
                    IF e = Dispatcher THEN <<Route("GET", UsersId, {})>> ELSE <<>>]
    /\ plugins = [e \in Engines |-> IF e = Dispatcher THEN <<"p1">> ELSE <<>>]
    /\ hooks = [e \in Engines |-> NoHooks]
    /\ RegisteredOnce
    /\ NoRequestInFlight

NextHooks ==
    \/ \E e \in {"app", "p1"}, k \in HookKinds, callback \in {"f", "g"} :
          /\ e = "p1" => k = "onRequest"
          /\ Len(registered[e][k]) < MaxRegistrations
          /\ RegisterHook(e, k, callback)
    \/ Receive("GET", Users42a)
    \/ RouteRequest
    \/ Validate
    \/ OnRequestHook("return", NoSet)
    \/ \E o \in {"json", "throwError"} : Handler(o, NoSet)
    \/ OnResponseHook("undefined", NoSet)
    \/ OnErrorHook("undefined")
    \/ Finish

SpecHooks == InitHooks /\ [][NextHooks]_vars

\* SpecPlain: the application has one GET route; up to MaxPlugins times it
\* is given, with use(), the instance p1 or one of the plain objects; p1
\* gets hooks; the application dispatches GET requests, plain or as a
\* WebSocket upgrade
InitPlain ==
    /\ HttpOnly
    /\ _routes = [e \in Engines |->
                    IF e = Dispatcher THEN <<Route("GET", UsersId, {})>> ELSE <<>>]
    /\ plugins = [e \in Engines |-> <<>>]
    /\ hooks = [e \in Engines |-> NoHooks]
    /\ RegisteredOnce
    /\ NoRequestInFlight

NextPlain ==
    \/ \E child \in {"p1"} \cup DOMAIN PlainObjects :
          Len(plugins[Dispatcher]) < MaxPlugins /\ Use(Dispatcher, child)
    \/ \E k \in HookKinds : hooks["p1"][k] = NoCallback /\ RegisterHook("p1", k, "f")
    \/ \E hs \in {NoHeaders, UpgradeWebsocket} :
          ReceiveRequest(Request("GET", Users42a, hs))
    \/ RouteRequest
    \/ Validate
    \/ OnRequestHook("return", NoSet)
    \/ \E o \in {"json", "throwError"} : Handler(o, NoSet)
    \/ OnResponseHook("undefined", NoSet)
    \/ OnErrorHook("undefined")
    \/ Finish

SpecPlain == InitPlain /\ [][NextPlain]_vars

\* SpecWS: the application and its plugin p1 have up to MaxRoutes WebSocket
\* routes each; the application has GET routes for the same patterns and
\* all three hooks; handleRequest is given no server handle, one that
\* accepts or one that rejects upgrades; a GET request has arrived, with or
\* without the upgrade header, for /a/b, /users/42%20a or /a/%4
\* "/a/%4"
PathA4 == <<"/", "a", "/", "%", "4">>

WSPatterns == {PatAX, PatAB, UsersId}

InitWS ==
    /\ \E own \in SeqsUpTo(WSPatterns, MaxRoutes), r1 \in SeqsUpTo(WSPatterns, MaxRoutes) :
          _wsRoutes = [e \in Engines |->
                         IF e = "app" THEN [k \in DOMAIN own |-> WSRoute(own[k], "app")]
                         ELSE IF e = "p1" THEN [k \in DOMAIN r1 |-> WSRoute(r1[k], "p1")]
                         ELSE <<>>]
    /\ _routes = [e \in Engines |->
                    IF e = "app" THEN <<Route("GET", PatAB, {}), Route("GET", UsersId, {})>>
                    ELSE <<>>]
    /\ plugins = [e \in Engines |-> IF e = "app" THEN <<"p1">> ELSE <<>>]
    /\ hooks = [e \in Engines |-> IF e = "app" THEN AllHooks ELSE NoHooks]
    /\ RegisteredOnce
    /\ \E handle \in {NoServer, Server(TRUE), Server(FALSE)} : server = handle
    /\ suspended = NoTask
    /\ store = NoStore
    /\ now = 0
    /\ NotStarted
    /\ \E pathname \in {PatAB, Users42a, PathA4}, hs \in {NoHeaders, UpgradeWebsocket} :
          ReceivedRequest(Request("GET", pathname, hs))

NextWS ==
    \/ RouteRequest
    \/ Validate
    \/ OnRequestHook("return", NoSet)
    \/ Handler("json", NoSet)
    \/ OnResponseHook("undefined", NoSet)

SpecWS == InitWS /\ [][NextWS]_vars

\* SpecTasks: the application has one GET route and an onRequest and an
\* onResponse hook; a request for /users/42%20a has arrived and a second
\* one, for /users/b, arrives while the first is at an await; the two calls
\* take turns at their awaits; every callback makes one assignment in
\* ctx.set or none
\* "/users/b"
UsersB == <<"/", "u", "s", "e", "r", "s", "/", "b">>

TaskWrites ==
    {NoSet, "status" :> 201, "headers" :> ("X-Id" :> Chars("1")),
     "cookies" :> <<createCookie(Chars("b"), Chars("1"), NoOptions)>>}

InitTasks ==
    /\ HttpOnly
    /\ _routes = [e \in Engines |->
                    IF e = Dispatcher THEN <<Route("GET", UsersId, {})>> ELSE <<>>]
    /\ plugins = [e \in Engines |-> <<>>]
    /\ hooks = [e \in Engines |->
                  IF e = Dispatcher THEN RequestAndResponseHooks ELSE NoHooks]
    /\ RegisteredOnce
    /\ Received("GET", Users42a)

NextTasks ==
    \/ RouteRequest
    \/ Validate
    \/ \E w \in TaskWrites : OnRequestHook("return", w)
    \/ \E w \in TaskWrites : Handler("json", w)
    \/ \E w \in TaskWrites : OnResponseHook("undefined", w)
    \/ request.pathname = Users42a /\ Accept(Request("GET", UsersB, NoHeaders))
    \/ Switch

SpecTasks == InitTasks /\ [][NextTasks]_vars

\* SpecRate: the onRequest hook of rateLimit({max: 2, window: 1, exclude:
\* ['/health']}) is called for up to MaxRequests requests, of two clients
\* (one named by either header) for /a/b and of one for /health, while up
\* to MaxTicks half seconds pass and the cleanup timer fires
\* "/health"
Health == Chars("/health")

RateRequests ==
    {Request("GET", PatAB, NoHeaders),
     Request("GET", PatAB, "x-forwarded-for" :> Chars("1")),
     Request("GET", PatAB, "x-real-ip" :> Chars("1")),
     Request("GET", Health, NoHeaders)}

InitRate == Constructed /\ NoRequestInFlight /\ RegisteredOnce

NextRate ==
    \/ \E req \in RateRequests : Len(log) < MaxRequests /\ RateLimitOnRequest(req)
    \/ Tick
    \/ Cleanup

SpecRate == InitRate /\ [][NextRate]_vars

\* SpecAuth: an application whose onRequest hook is the onRequest function
\* of auth({type: 'bearer', exclude: ['/login', '/api/*']}) and whose routes
\* match every pathname of one to three segments; requests come for listed
\* and unlisted pathnames, without the header, with a token and with a
\* header that is no Bearer token
AuthPathnames ==
    {Chars("/login"), Chars("/login2"), Chars("/api/a"), Chars("/v/api/a"), Chars("/me")}

AuthHeaders ==
    {NoHeaders, "authorization" :> Chars("Bearer t"), "authorization" :> Chars("t")}

InitAuth ==
    /\ HttpOnly
    /\ _routes = [e \in Engines |->
                    IF e = Dispatcher
                    THEN <<Route("GET", Chars("/:a"), {}), Route("GET", Chars("/:a/:b"), {}),
                           Route("GET", Chars("/:a/:b/:c"), {})>>
                    ELSE <<>>]
    /\ plugins = [e \in Engines |-> <<>>]
    /\ hooks = [e \in Engines |->
                  IF e = Dispatcher THEN [NoHooks EXCEPT !.onRequest = "auth"]
                  ELSE NoHooks]
    /\ RegisteredOnce
    /\ NoRequestInFlight

NextAuth ==
    \/ hooks[Dispatcher].onError = NoCallback /\ RegisterHook(Dispatcher, "onError", "f")
    \/ \E pathname \in AuthPathnames, hs \in AuthHeaders :
          ReceiveRequest(Request("GET", pathname, hs))
    \/ RouteRequest
    \/ Validate
    \/ AuthOnRequest
    \/ \E o \in {"json", "throwError"} : Handler(o, NoSet)
    \/ \E o \in {"undefined", "value"} : OnErrorHook(o)
    \/ Finish

SpecAuth == InitAuth /\ [][NextAuth]_vars

\* SpecOutcome: an application with the routes /a/:x and /users/:id, also
\* as WebSocket routes, every hook of its own and of one plugin in place,
\* with or without a server handle; requests come for a well-formed and for
\* a malformed pathname, plain, as an upgrade and with a malformed Cookie
\* header, and every callback returns or throws
OutcomeHeaders == {NoHeaders, UpgradeWebsocket, "cookie" :> Chars("a=%")}

InitOutcome ==
    /\ _routes = [e \in Engines |->
                    IF e = Dispatcher
                    THEN <<Route("GET", PatAX, {}), Route("GET", UsersId, {})>>
                    ELSE <<>>]
    /\ _wsRoutes = [e \in Engines |->
                      IF e = Dispatcher THEN <<WSRoute(PatAX, Dispatcher)>> ELSE <<>>]
    /\ plugins = [e \in Engines |-> IF e = Dispatcher THEN <<"p1">> ELSE <<>>]
    /\ hooks = [e \in Engines |-> IF e \in {Dispatcher, "p1"} THEN AllHooks ELSE NoHooks]
    /\ RegisteredOnce
    /\ \E handle \in {NoServer, Server(TRUE), Server(FALSE)} : server = handle
    /\ suspended = NoTask
    /\ store = NoStore
    /\ now = 0
    /\ NotStarted
    /\ NoRequestInFlight

NextOutcome ==
    \/ \E pathname \in {Users42a, PathA4, PatAB}, hs \in OutcomeHeaders :
          ReceiveRequest(Request("GET", pathname, hs))
    \/ RouteRequest
    \/ Validate
    \/ \E o \in OnRequestOutcomes : OnRequestHook(o, NoSet)
    \/ \E o \in HandlerOutcomes : Handler(o, NoSet)
    \/ \E o \in OnResponseOutcomes : OnResponseHook(o, NoSet)
    \/ \E o \in OnErrorOutcomes : OnErrorHook(o)
    \/ Finish

SpecOutcome == InitOutcome /\ [][NextOutcome]_vars

\* SpecCors: an application with GET and POST routes for /users/:id that
\* installs cors() either with use(cors()) or by registering the two
\* functions of the object as its own hooks; requests come with the methods
\* GET, POST and OPTIONS for a pathname with a route and for one without
CorsMethods == {"GET", "POST", "OPTIONS"}

InitCors ==
    /\ HttpOnly
    /\ _routes = [e \in Engines |->
                    IF e = Dispatcher
                    THEN <<Route("GET", UsersId, {}), Route("POST", UsersId, {})>>
                    ELSE <<>>]
    /\ \E used \in BOOLEAN :
          /\ plugins = [e \in Engines |->
                          IF e = Dispatcher /\ used THEN <<"cors">> ELSE <<>>]
          /\ hooks = [e \in Engines |->
                        IF e = Dispatcher /\ ~used
                        THEN [NoHooks EXCEPT !.onRequest = "cors", !.onResponse = "cors"]
                        ELSE NoHooks]
    /\ RegisteredOnce
    /\ NoRequestInFlight

NextCors ==
    \/ hooks[Dispatcher].onError = NoCallback /\ RegisterHook(Dispatcher, "onError", "f")
    \/ \E method \in CorsMethods, pathname \in {Users42a, PatAB},
          hs \in {NoHeaders, "origin" :> Chars("a")} :
          ReceiveRequest(Request(method, pathname, hs))
    \/ RouteRequest
    \/ Validate
    \/ CorsOnRequest
    \/ \E o \in {"json", "Response", "throwError"} : Handler(o, NoSet)
    \/ CorsOnResponse
    \/ \E o \in {"undefined", "value"} : OnErrorHook(o)
    \/ Finish

SpecCors == InitCors /\ [][NextCors]_vars

\* SpecLifecycle: an application with any of the four lifecycle hooks
\* registered; start(port) and stop() are called one after the other, each
\* call after the one before has settled, and every hook returns or throws
Ports == {3000, 3001}

HookReturns == {"return", "throw"}

InitLifecycle ==
    /\ _routes = [e \in Engines |-> <<>>]
    /\ _wsRoutes = [e \in Engines |-> <<>>]
    /\ plugins = [e \in Engines |-> <<>>]
    /\ \E registeredKinds \in SUBSET LifecycleKinds :
          hooks = [e \in Engines |->
                     IF e = Dispatcher
                     THEN [k \in HookKinds \cup LifecycleKinds |->
                             IF k \in registeredKinds THEN "f" ELSE NoCallback]
                     ELSE NoHooks]
    /\ registered = [e \in Engines |-> [k \in DOMAIN hooks[e] |->
                        IF hooks[e][k] = NoCallback THEN <<>> ELSE <<hooks[e][k]>>]]
    /\ server = NoServer
    /\ suspended = NoTask
    /\ store = NoStore
    /\ now = 0
    /\ NotStarted
    /\ NoRequestInFlight

\* no call is waiting for a hook
AllSettled == \A c \in DOMAIN lifecycleCalls : lifecycleCalls[c].at \in Settled

NextLifecycle ==
    \/ \E port \in Ports : AllSettled /\ Start(port)
    \/ AllSettled /\ Stop
    \/ \E c \in DOMAIN lifecycleCalls, outcome \in HookReturns : Resume(c, outcome)

SpecLifecycle == InitLifecycle /\ [][NextLifecycle]_vars

\* SpecStarts: the same application, whose start(port) and stop() calls are
\* made at any moment, also while earlier calls wait for a hook
NextStarts ==
    \/ \E port \in Ports : Start(port)
    \/ Stop
    \/ \E c \in DOMAIN lifecycleCalls, outcome \in HookReturns : Resume(c, outcome)

SpecStarts == InitLifecycle /\ [][NextStarts]_vars

\* SpecSkip: the hooks of rateLimit({max: 2, window: 1, exclude:
\* ['/health'], skipSuccessful: true}) are called for up to MaxRequests
\* requests and responses of one client, for /a/b and for /health, with or
\* without a status of 500 set by the handler, while up to MaxTicks half
\* seconds pass and the cleanup timer fires
SkipRequests ==
    {Request("GET", PatAB, NoHeaders), Request("GET", Health, NoHeaders)}

NextSkip ==
    \/ \E req \in SkipRequests :
          Len(log) < MaxRequests /\ RateLimitOnRequestWith(SkipOptions, req)
    \/ \E i \in DOMAIN log, set \in {NoSet, "status" :> 500} :
          Len(log) < MaxRequests /\ RateLimitOnResponseWith(SkipOptions, i, set)
    \/ Tick
    \/ Cleanup

SpecSkip == InitRate /\ [][NextSkip]_vars

\* SpecJwt: an application whose onRequest hook is the onRequest function
\* of auth({type: 'jwt', secret: 'k'}); requests for /me carry a token that
\* createJWT has just made with that secret or with another one, or a token
\* put together by hand; up to MaxTicks half seconds pass between the
\* creation of the token and the call of the hook
ExpiresIn == {0 - 1, 0, 1, 2}

\* the tokens createJWT makes now
CreatedTokens(secret) ==
    {createJWT([sub |-> who], secret, expiresIn) :
        who \in Subjects, expiresIn \in ExpiresIn}

\* tokens that are not made by createJWT: with a signature that is not
\* derived from anything, without exp, without a third part, and with a
\* second part that is no encoding or no payload
HandMadeTokens ==
    LET headerB64 == btoa(JwtHeader)
        payloadB64 == btoa(JSONtext([sub |-> "b", exp |-> 4]))
    IN  {Token(headerB64, payloadB64, Chars("A")),
         Token(headerB64, btoa(JSONtext([sub |-> "b"])), Chars("A")),
         headerB64 \o Chars(".") \o payloadB64,
         Token(headerB64, Chars("x"), Chars("A")),
         Token(headerB64, btoa(Chars("{}")), Chars("A"))}

InitJwt ==
    /\ HttpOnly
    /\ _routes = [e \in Engines |->
                    IF e = Dispatcher THEN <<Route("GET", Chars("/:a"), {})>> ELSE <<>>]
    /\ plugins = [e \in Engines |-> <<>>]
    /\ hooks = [e \in Engines |->
                  IF e = Dispatcher THEN [NoHooks EXCEPT !.onRequest = "auth"]
                  ELSE NoHooks]
    /\ RegisteredOnce
    /\ NoRequestInFlight

NextJwt ==
    \/ /\ pc = Idle
       /\ \E token \in CreatedTokens(JwtOptions.secret) \cup CreatedTokens(Chars("z"))
                        \cup HandMadeTokens :
             ReceiveRequest(Request("GET", Chars("/me"),
                                    "authorization" :> (Chars("Bearer ") \o token)))
    \/ Tick
    \/ RouteRequest
    \/ Validate
    \/ AuthOnRequestWith(JwtOptions)
    \/ Handler("json", NoSet)
    \/ Finish

SpecJwt == InitJwt /\ [][NextJwt]_vars

\* ------------------------------------------------------------------------
\* Properties of the hook pipeline
\* ------------------------------------------------------------------------
\* the callback behind a log entry threw
EntryThrew(entry) == entry.outcome \in {"throwResponse", "throwError"}

\* the request in flight matched a route and every declared schema accepted it
PassedValidation ==
    /\ pc.at \in {"onRequest", "handler", "onResponse", "onError", "done"}
    /\ matched.kind = "match"
    /\ request.viol = {}

\* C1: when an onRequest hook throws a Response, handleRequest returns that
\* same Response, whatever onError hooks are registered and whatever they
\* return.
C1_ThrownResponseReturnedVerbatim ==
    \A i \in DOMAIN log :
        (/\ pc = Done
         /\ log[i].kind = "onRequest"
         /\ log[i].outcome = "throwResponse")
        => result = ResponseOf(log[i].who)

\* C2: once an onRequest hook has thrown (a Response or anything else), the
\* only callbacks invoked afterwards for that request are onError hooks: no
\* later onRequest hook, not the handler, no onResponse hook.
C2_NothingRunsAfterOnRequestThrows ==
    \A i \in DOMAIN log :
        (log[i].kind = "onRequest" /\ EntryThrew(log[i]))
        => \A j \in DOMAIN log :
              /\ (j > i => log[j].kind = "onError")
              /\ (j < i => log[j].kind = "onRequest")

\* C2 witness: the request is finished, the application's own onRequest hook
\* threw, and a later onRequest hook and an onResponse hook were registered
\* and waiting
C2_Witness ==
    /\ pc = Done
    /\ Len(log) >= 1
    /\ log[1].kind = "onRequest" /\ log[1].who = Dispatcher /\ EntryThrew(log[1])
    /\ \E j \in DOMAIN plugins[Dispatcher] :
          /\ hooks[plugins[Dispatcher][j]]["onRequest"] # NoCallback
          /\ hooks[plugins[Dispatcher][j]]["onResponse"] # NoCallback

\* the instances in the order the claim gives: own first, then use() order
C3_Owners == <<Dispatcher>> \o plugins[Dispatcher]

C3_HooksOf(kind) ==
    LET all == [j \in DOMAIN C3_Owners |-> [who |-> C3_Owners[j], kind |-> kind]]
    IN  SelectSeq(all, LAMBDA x : hooks[x.who][kind] # NoCallback)

\* the order of the claim: onRequest hooks, the handler, onResponse hooks
C3_Expected ==
    C3_HooksOf("onRequest") \o <<[who |-> "route", kind |-> "handler"]>>
        \o C3_HooksOf("onResponse")

\* the callbacks of the try block that were invoked, in order
C3_Invoked ==
    LET tryLog == SelectSeq(log, LAMBDA x : x.kind # "onError")
    IN  [j \in DOMAIN tryLog |-> [who |-> tryLog[j].who, kind |-> tryLog[j].kind]]

\* the response value a step leaves behind
C3_Left(entry) ==
    IF entry.kind = "handler" THEN entry.ret
    ELSE IF entry.ret # None THEN entry.ret ELSE entry.arg

\* C3: for a request that matched and passed validation the callbacks run one
\* after the other in the order own onRequest, plugins' onRequest in use()
\* order, the handler, own onResponse, plugins' onResponse in use() order: at
\* every moment the callbacks invoked so far are a prefix of that order (so
\* none runs twice or out of turn), the request that ends without a throw
\* has run all of it with the handler exactly once, and each onResponse hook
\* is given the response value left by the step before it.
C3_HookOrder ==
    PassedValidation =>
        /\ Len(C3_Invoked) <= Len(C3_Expected)
        /\ C3_Invoked = SubSeq(C3_Expected, 1, Len(C3_Invoked))
        /\ (pc = Done /\ \A i \in DOMAIN log : ~EntryThrew(log[i]))
              => C3_Invoked = C3_Expected
        /\ \A i \in DOMAIN log :
              log[i].kind = "onResponse" => (i > 1 /\ log[i].arg = C3_Left(log[i - 1]))

\* C3 witness: onResponse is registered on the application and on two
\* plugins, all three ran, each replacing the response, and the final body
\* carries their marks in the order [parent, plugin1, plugin2]
C3_Witness ==
    /\ pc = Done
    /\ plugins[Dispatcher] = <<"p1", "p2">>
    /\ \A e \in Engines : hooks[e]["onResponse"] # NoCallback
    /\ result.status = 200
    /\ result.body = JSONstringify(Json(<<"handler", "app", "p1", "p2">>))

\* ------------------------------------------------------------------------
\* Properties of request validation
\* ------------------------------------------------------------------------
\* C4: when one of params, query, body, headers, cookies fails its declared
\* schema the request ends at once with a 400 whose body has the fields
\* error and details, and no handler and no hook of any kind is invoked.
C4_ValidationFailureIs400 ==
    (matched.kind = "match" /\ request.viol # {})
    => /\ pc = Done
       /\ log = <<>>
       /\ result.type = "Response"
       /\ result.status = 400
       /\ {"error", "details"} \subseteq DOMAIN result.body.of

\* C4 witness: every hook is registered on every instance and the request
\* violates only the cookies schema
C4_Witness ==
    /\ pc = Done
    /\ \A e \in Engines, k \in HookKinds : hooks[e][k] # NoCallback
    /\ request.viol = {<<"cookies", "f">>}
    /\ result.status = 400

\* the first part, in the order params, query, body, headers, cookies, that
\* has a violation
C5_FirstFailingPart ==
    LET has(p) == \E f \in Fields : <<p, f>> \in request.viol
    IN  IF has("params") THEN "params"
        ELSE IF has("query") THEN "query"
        ELSE IF has("body") THEN "body"
        ELSE IF has("headers") THEN "headers"
        ELSE "cookies"

C5_ValidationFailed == pc = Done /\ matched.kind = "match" /\ request.viol # {}

\* C5 as stated: the details of the 400 response list every field that
\* violates a declared schema in any of the five parts, and nothing else.
C5_DetailsListEveryViolation ==
    C5_ValidationFailed => result.body.of.details = request.viol

\* C5 amended: the details of the 400 response are exactly the issues of the
\* first part, in the order params, query, body, headers, cookies, whose
\* declared schema rejects the request; violations in later parts are not
\* reported.
C5_DetailsOfFirstFailingPart ==
    C5_ValidationFailed
    => /\ result.body.of.details = {is \in request.viol : is[1] = C5_FirstFailingPart}
       /\ result.body.of.n = Cardinality(result.body.of.details)

\* C5 witness: two fields of the query and one of the cookies are invalid
C5_Witness ==
    /\ C5_ValidationFailed
    /\ request.viol = {<<"query", "f">>, <<"query", "g">>, <<"cookies", "f">>}

\* ------------------------------------------------------------------------
\* Properties of the path matcher
\* ------------------------------------------------------------------------
\* the instances in the order the claim gives: own first, then use() order
C6_Owners == <<Dispatcher>> \o plugins[Dispatcher]

\* a position <<k, j>> is route j of the k-th instance of that order
C6_Positions ==
    {pos \in (DOMAIN C6_Owners) \X (1..(MaxOwnRoutes + MaxRoutes)) :
        pos[2] <= Len(_routes[C6_Owners[pos[1]]])}

C6_Before(a, b) == a[1] < b[1] \/ (a[1] = b[1] /\ a[2] < b[2])

C6_RouteAt(pos) == _routes[C6_Owners[pos[1]]][pos[2]]

C6_Matches(pos) ==
    /\ C6_RouteAt(pos).method = request.method
    /\ matchPattern(C6_RouteAt(pos).path, request.pathname).kind = "match"

\* C6: matchRoute returns the first route, own routes in registration order
\* and then each plugin's routes in use() order, whose method is the
\* request's and whose pattern matches the pathname, and null when there is
\* none; no ranking by specificity: with /a/:x registered before /a/b, a
\* request for /a/b goes to /a/:x with x = "b".
C6_FirstMatchWins ==
    /\ matched.kind = "null" => \A pos \in C6_Positions : ~C6_Matches(pos)
    /\ matched.kind = "match" =>
          \E pos \in C6_Positions :
              /\ C6_Matches(pos)
              /\ \A q \in C6_Positions : C6_Before(q, pos) => ~C6_Matches(q)
              /\ matched.route = C6_RouteAt(pos)
              /\ matched.index = 1 + Cardinality({q \in C6_Positions : C6_Before(q, pos)})
              /\ matched.params = matchPattern(C6_RouteAt(pos).path, request.pathname).params
    /\ (/\ matched.kind # "none"
        /\ request.method = "GET"
        /\ Len(_routes[Dispatcher]) >= 2
        /\ _routes[Dispatcher][1] = Route("GET", PatAX, {})
        /\ _routes[Dispatcher][2] = Route("GET", PatAB, {}))
       => /\ matched.kind = "match"
          /\ matched.route.path = PatAX
          /\ matched.params = (<<"x">> :> <<"b">>)

\* C6 witness: /a/:x then /a/b are the application's routes, a plugin has
\* /a/b too, and GET /a/b was matched to /a/:x
C6_Witness ==
    /\ matched.kind = "match"
    /\ request.method = "GET"
    /\ _routes[Dispatcher] = <<Route("GET", PatAX, {}), Route("GET", PatAB, {})>>
    /\ plugins[Dispatcher] = <<"p1", "p2">>
    /\ _routes["p1"] = <<Route("GET", PatAB, {})>>
    /\ matched.index = 1
    /\ matched.params[<<"x">>] = <<"b">>

\* the non-empty segments of a pattern or a pathname
NonEmptySegments(path) == SelectSeq(split(path), LAMBDA x : x # <<>>)

\* the one route of SpecSeg and the request's pathname, in segments
SegRoute == NonEmptySegments(_routes[Dispatcher][1].path)
SegPath == NonEmptySegments(request.pathname)

IsNamed(seg) == Len(seg) >= 1 /\ seg[1] = ":"

\* the key a pattern segment binds: the name after ':', or '*'
KeyOf(seg) == IF IsNamed(seg) THEN Tail(seg) ELSE <<"*">>

Binds(seg) == IsNamed(seg) \/ seg = <<"*">>

EndsWithWildcard == Len(SegRoute) > 0 /\ SegRoute[Len(SegRoute)] = <<"*">>

\* the pathname segments the trailing * stands for
Remainder == SubSeq(SegPath, Len(SegRoute), Len(SegPath))

Decodable(segs) == \A i \in DOMAIN segs : decodeURIComponent(segs[i]).ok

DecodedAll(segs) == [i \in DOMAIN segs |-> decodeURIComponent(segs[i]).val]

\* C8: for a pattern whose last segment is *, a matching request binds
\* params['*'] to the percent-decoded remaining pathname segments joined by
\* '/'.
C8_TrailingWildcardBindsDecoded ==
    (matched.kind = "match" /\ EndsWithWildcard /\ Decodable(Remainder))
    => matched.params[<<"*">>] = join(DecodedAll(Remainder))

IsLiteral(seg) == seg # <<>> /\ ~IsNamed(seg) /\ seg # <<"*">>

\* C9: a literal pattern segment matches a pathname segment exactly when it
\* equals the percent-decoded pathname segment: for a pattern of literal
\* segments and a pathname of as many well-formed segments, the route
\* matches exactly when every literal equals the decoded segment at its
\* position.
C9_LiteralComparedAfterDecoding ==
    (/\ matched.kind # "none"
     /\ \A i \in DOMAIN SegRoute : IsLiteral(SegRoute[i])
     /\ Len(SegRoute) = Len(SegPath)
     /\ Decodable(SegPath))
    => (matched.kind = "match"
          <=> \A i \in DOMAIN SegRoute : SegRoute[i] = decodeURIComponent(SegPath[i]).val)

\* the pathname with one more '/' put before position i
WithSlashAt(path, i) == SubSeq(path, 1, i - 1) \o <<"/">> \o SubSeq(path, i, Len(path))

\* the outcome of matching, without the route: matched or not, and the bindings
Outcome(m) ==
    IF m.kind = "match" THEN [kind |-> "match", params |-> m.params]
    ELSE IF m.kind = "throw" THEN [kind |-> "throw"]
    ELSE [kind |-> "nomatch"]

\* the segment at position i of the pattern accepts the pathname segment at
\* position i, by the matcher's test for one segment
SegmentAccepts(i) ==
    IF IsLiteral(SegRoute[i]) THEN SegRoute[i] = SegPath[i]
    ELSE decodeURIComponent(SegPath[i]).ok

\* C10: the segment-count rule. Empty segments of the pattern and of the
\* pathname do not count: a doubled or trailing '/' in either changes neither
\* the outcome nor the bindings. A pattern without a trailing * matches only
\* pathnames with exactly as many segments. A pattern with a trailing *
\* matches every pathname that has at least (pattern length - 1) segments
\* and whose leading segments are accepted, and no pathname with fewer; with
\* no remainder the wildcard is bound to the empty string.
C10_SegmentCountRule ==
    matched.kind # "none" =>
        LET pattern == _routes[Dispatcher][1].path
            pathname == request.pathname
        IN  /\ \A i \in 1..(Len(pathname) + 1) :
                  (i = Len(pathname) + 1 \/ pathname[i] = "/")
                  => Outcome(matchPattern(pattern, WithSlashAt(pathname, i))) = Outcome(matched)
            /\ \A i \in 1..(Len(pattern) + 1) :
                  (i = Len(pattern) + 1 \/ pattern[i] = "/")
                  => Outcome(matchPattern(WithSlashAt(pattern, i), pathname)) = Outcome(matched)
            /\ (~EndsWithWildcard /\ matched.kind = "match") => Len(SegPath) = Len(SegRoute)
            /\ (EndsWithWildcard /\ Len(SegPath) < Len(SegRoute) - 1) => matched.kind = "null"
            /\ (/\ EndsWithWildcard
                /\ Len(SegPath) >= Len(SegRoute) - 1
                /\ \A i \in 1..(Len(SegRoute) - 1) : SegmentAccepts(i))
               => /\ matched.kind = "match"
                  /\ matched.params[<<"*">>] = join(Remainder)
                  /\ (Len(SegPath) = Len(SegRoute) - 1 => matched.params[<<"*">>] = <<>>)

\* C10 witness: the pattern /users/* matched the pathname //users/, which
\* has no remainder after its empty segments are dropped, and bound * to ""
C10_Witness ==
    /\ matched.kind = "match"
    /\ _routes[Dispatcher][1].path = <<"/">> \o Users \o <<"/", "*">>
    /\ request.pathname = <<"/", "/">> \o Users \o <<"/">>
    /\ matched.params[<<"*">>] = <<>>

\* ------------------------------------------------------------------------
\* Properties of the terminal responses
\* ------------------------------------------------------------------------
\* no route the dispatcher sees has the request's method and a pattern that
\* matches its pathname
C11_NoRouteMatches == \A pos \in C6_Positions : ~C6_Matches(pos)

\* C11: a request for which no route, own or of a plugin, has both the
\* request's method and a matching pattern ends at once with the 404
\* response "Not Found", and no onRequest, onResponse or onError hook and no
\* handler is invoked; a path registered under another method only is such
\* a request.
C11_NoRouteIs404 ==
    (pc.at \notin {"idle", "routing"} /\ C11_NoRouteMatches)
    => /\ pc = Done
       /\ result = Response(404, [text |-> "Not Found"])
       /\ log = <<>>

\* C11 witness: the path is registered under GET, the application has its
\* three hooks, and the POST request for it has ended with the 404
C11_Witness ==
    /\ pc = Done
    /\ request.method = "POST"
    /\ Len(_routes[Dispatcher]) = 1
    /\ _routes[Dispatcher][1].method = "GET"
    /\ matchPattern(_routes[Dispatcher][1].path, request.pathname).kind = "match"
    /\ \A k \in HookKinds : hooks[Dispatcher][k] # NoCallback
    /\ result.status = 404
    /\ log = <<>>

\* the callbacks of the try block and of the catch block that were invoked
C12_TryLog == SelectSeq(log, LAMBDA x : x.kind # "onError")

C12_ErrorLog == SelectSeq(log, LAMBDA x : x.kind = "onError")

\* the onError hooks that returned a non-falsy value
C12_Returned == SelectSeq(C12_ErrorLog, LAMBDA x : x.ret # None)

\* the request is finished, the last callback of the try block threw and
\* every onError hook that was called returned
C12_Caught ==
    /\ pc = Done
    /\ C12_TryLog # <<>>
    /\ EntryThrew(C12_TryLog[Len(C12_TryLog)])
    /\ \A i \in DOMAIN C12_ErrorLog : ~EntryThrew(C12_ErrorLog[i])

C13_Config == _routes[Dispatcher][1].response

\* the running response value after the handler and the onResponse hooks
\* that were invoked
C13_Running == C3_Left(C12_TryLog[Len(C12_TryLog)])

\* the handler and every registered onResponse hook have returned
C13_ChainCompleted ==
    /\ C3_Invoked = C3_Expected
    /\ \A i \in DOMAIN log : ~EntryThrew(log[i])

\* a response schema has parsed the running value, or has rejected it
C13_Validated ==
    \/ response.type = "json" /\ response.marks[Len(response.marks)] \in Schemas
    \/ pc = Done /\ result.type = "Response" /\ result.status = 500
          /\ C12_ErrorLog = <<>> /\ ~EntryThrew(log[Len(log)])

RECURSIVE C13_Assigned(_)
\* ctx.set after the assignments of the callbacks of a log
C13_Assigned(entries) ==
    IF entries = <<>> THEN NoSet
    ELSE entries[Len(entries)].wrote
            @@ C13_Assigned(SubSeq(entries, 1, Len(entries) - 1))

\* C13: response validation runs only after the handler and every
\* registered onResponse hook have returned, and only when the route
\* declares a response schema and the running value is not a Response (a
\* Response is returned as it is); when the schema rejects the value the
\* request ends with a 500 whose JSON body has error and details, no onError
\* hook is invoked, and what the handler and the hooks did before stays
\* done: their calls and their writes to ctx.set are still there.
C13_ResponseValidation ==
    (matched.kind = "match" /\ log # <<>>) =>
        /\ C13_Validated =>
              /\ pc = Done
              /\ C13_ChainCompleted
              /\ C13_Config # None
              /\ C13_Running.type # "Response"
        /\ (pc = Done /\ C13_ChainCompleted /\ C13_Running.type = "Response")
              => result = C13_Running
        /\ (pc = Done /\ C13_ChainCompleted /\ C13_Config = None)
              => result.status # 500 /\ response = C13_Running
        /\ (C13_Validated /\ result.status = 500) =>
              /\ {"error", "details"} \subseteq DOMAIN result.body.of
              /\ result.body.of.details # {}
              /\ result.body.of.details \subseteq issues
              /\ C12_ErrorLog = <<>>
              /\ ctx.set = C13_Assigned(log)

\* C13 witness: the route declares one schema, the application has an
\* onResponse and an onError hook, the handler assigned status 201 and the
\* hook replaced the value; the schema rejected it: 500, onError not called,
\* status 201 still in ctx.set
C13_Witness ==
    /\ pc = Done
    /\ C13_Config = OneSchema("A")
    /\ hooks[Dispatcher]["onError"] # NoCallback
    /\ Len(log) = 2
    /\ log[1].kind = "handler" /\ log[1].wrote = ("status" :> 201)
    /\ log[2].kind = "onResponse" /\ log[2].outcome = "value"
    /\ issues = {<<"A", "f">>, <<"B", "g">>}
    /\ result.status = 500
    /\ result.body.of.details = {<<"A", "f">>}
    /\ ctx.set = ("status" :> 201)

\* ctx.set.status when the response is serialized, 200 when it was never
\* assigned
C14_Status == IF "status" \in DOMAIN ctx.set THEN ctx.set.status ELSE 200

\* the request is finished, the route's response config is keyed by status
\* and the running value, which is not a Response, went to validateResponse
C14_StatusKeyed ==
    /\ pc = Done
    /\ matched.kind = "match"
    /\ C13_Config # None
    /\ C13_Config.kind = "byStatus"
    /\ C13_ChainCompleted
    /\ C13_Running.type # "Response"

\* the outcome of validating the running value with schema a: accepted, it
\* is sent as the JSON of what a's parse returned, under the status of
\* ctx.set; rejected, the answer is the 500 with a's issues
C14_ValidatedWith(a) ==
    IF \E is \in issues : is[1] = a
    THEN /\ result.status = 500
         /\ result.body.of.details = {is \in issues : is[1] = a}
    ELSE /\ result.status = C14_Status
         /\ result.body = JSONstringify(Json(Append(C13_Running.marks, a)))

\* C14: with a response config keyed by status, the response is validated
\* with the schema registered for the current ctx.set.status (200 when it
\* is unset) whenever that status has an entry: with {200: A, 400: B} and
\* status 400, data that A rejects and B accepts is accepted.
C14_SchemaOfCurrentStatus ==
    (C14_StatusKeyed /\ C14_Status \in DOMAIN C13_Config.map)
    => C14_ValidatedWith(C13_Config.map[C14_Status])

\* C14 witness: config {200: A, 400: B}, the handler assigned status 400 and
\* returned data that A rejects and B accepts: the answer is the data, with
\* status 400
C14_Witness ==
    /\ pc = Done
    /\ C13_Config = ByStatus((200 :> "A") @@ (400 :> "B"))
    /\ Len(log) = 1
    /\ log[1].kind = "handler" /\ log[1].wrote = ("status" :> 400)
    /\ issues = {<<"A", "f">>}
    /\ result.status = 400
    /\ result.body = JSONstringify(Json(<<"handler", "B">>))

\* the schema of the first of 200, 201, 400, 500 that has an entry
C15_Fallback(map) ==
    IF 200 \in DOMAIN map THEN map[200]
    ELSE IF 201 \in DOMAIN map THEN map[201]
    ELSE IF 400 \in DOMAIN map THEN map[400]
    ELSE map[500]

\* C15: with a response config keyed by status that has no entry for the
\* current status, the response is validated with the schema of the first
\* of 200, 201, 400, 500 that has an entry; when none of them has one the
\* value is passed through unchanged and no error is raised.
C15_FallbackOrder ==
    (C14_StatusKeyed /\ C14_Status \notin DOMAIN C13_Config.map)
    => IF DOMAIN C13_Config.map \cap {200, 201, 400, 500} # {}
       THEN C14_ValidatedWith(C15_Fallback(C13_Config.map))
       ELSE /\ result.status = C14_Status
            /\ result.body = JSONstringify(C13_Running)
            /\ response = C13_Running

\* C15 witness: config {201: A, 500: B}, status 404: A is used and accepts
\* data that B rejects
C15_Witness ==
    /\ pc = Done
    /\ C13_Config = ByStatus((201 :> "A") @@ (500 :> "B"))
    /\ Len(log) = 1
    /\ log[1].kind = "handler" /\ log[1].wrote = ("status" :> 404)
    /\ issues = {<<"B", "f">>}
    /\ result.status = 404
    /\ result.body = JSONstringify(Json(<<"handler", "A">>))

\* the lenient end of C15 happens: the config is {404: A}, the status is
\* unset and the data, which both schemas reject, is sent as it is
C15_PassThroughHappens ==
    /\ pc = Done
    /\ C13_Config = ByStatus(404 :> "A")
    /\ Len(log) = 1
    /\ issues = {<<"A", "f">>, <<"B", "f">>}
    /\ result.status = 200
    /\ result.body = JSONstringify(Json(<<"handler">>))

\* ------------------------------------------------------------------------
\* Properties of materialization
\* ------------------------------------------------------------------------
\* the request is finished, the handler and every registered onResponse hook
\* returned, and the value to serialize is not a Response
C16_Serialized ==
    /\ pc = Done
    /\ matched.kind = "match"
    /\ C13_ChainCompleted
    /\ C13_Running.type # "Response"

\* the callbacks that wrote ctx.set.status: by an assignment, or through
\* ctx.status(201, data)
C16_StatusWriters ==
    {i \in DOMAIN log : log[i].outcome = "status" \/ "status" \in DOMAIN log[i].wrote}

\* the status given by the last write: ctx.status is the last statement of
\* the handler that calls it
C16_LastWritten ==
    LET i == CHOOSE k \in C16_StatusWriters : \A j \in C16_StatusWriters : j <= k
    IN  IF log[i].outcome = "status" THEN 201 ELSE log[i].wrote.status

\* C16: ctx.status(code, data) writes code into ctx.set.status and returns
\* data unchanged; for every value to serialize that is not a Response, the
\* status of the response is the value ctx.set.status has at serialization
\* time, that is the last write of a hook or of the handler, and 200 when
\* it was never written.
C16_StatusFromSet ==
    /\ \A i \in DOMAIN log :
          log[i].outcome = "status" =>
              /\ log[i].ret = Json(<<"handler">>)
              /\ (i = Len(log) /\ pc.at = "onResponse") => ctx.set.status = 201
    /\ C16_Serialized =>
          result.status = IF C16_StatusWriters = {} THEN 200 ELSE C16_LastWritten

\* C16 witness: the onRequest hook wrote 404, the handler returned
\* ctx.status(201, data) and the onResponse hook wrote nothing: the JSON
\* response carries the data and status 201
C16_Witness ==
    /\ pc = Done
    /\ Len(log) = 3
    /\ log[1].kind = "onRequest" /\ log[1].wrote = ("status" :> 404)
    /\ log[2].kind = "handler" /\ log[2].outcome = "status"
    /\ log[3].kind = "onResponse" /\ log[3].wrote = NoSet /\ log[3].outcome = "undefined"
    /\ result.status = 201
    /\ result.body = JSONstringify(Json(<<"handler">>))

\* what the claim calls a file handle: a File, or an object that has the
\* properties stream and size (the value of Bun.file and of the file helper)
C17_IsFileHandle(v) ==
    \/ v.type = "File"
    \/ v.type = "object" /\ {"stream", "size"} \subseteq DOMAIN v.props

\* ctx.set.headers at serialization time, by the log
C17_SetHeaders ==
    LET set == C13_Assigned(log)
    IN  IF "headers" \in DOMAIN set THEN set.headers ELSE NoHeaders

\* C17: the value to serialize becomes the response by the first rule that
\* applies: a Response is returned as it is, whatever ctx.set holds; a file
\* handle becomes the body under a Content-Type and a Content-Length header;
\* a string becomes the body as it is, without the JSON content type; any
\* other value becomes its JSON text, with Content-Type application/json
\* unless ctx.set.headers defines Content-Type, which then stays.
C17_MaterializerPrecedence ==
    (pc = Done /\ matched.kind = "match" /\ C13_ChainCompleted) =>
        LET v == C13_Running
        IN  IF v.type = "Response" THEN result = v
            ELSE IF C17_IsFileHandle(v)
            THEN /\ result.body = v
                 /\ {"Content-Type", "Content-Length"} \subseteq DOMAIN result.headers
            ELSE IF v.type = "string"
            THEN /\ result.body = v
                 /\ "Content-Type" \in DOMAIN result.headers
                       => /\ "Content-Type" \in DOMAIN C17_SetHeaders
                          /\ result.headers["Content-Type"] = C17_SetHeaders["Content-Type"]
            ELSE /\ result.body = JSONstringify(v)
                 /\ result.headers["Content-Type"] =
                       IF "Content-Type" \in DOMAIN C17_SetHeaders
                       THEN C17_SetHeaders["Content-Type"]
                       ELSE Chars("application/json")

\* C17 witness: the handler assigned ctx.set.headers with Content-Type
\* text/html and returned a plain value: the JSON text is sent as text/html
C17_Witness ==
    /\ pc = Done
    /\ Len(log) = 1
    /\ log[1].outcome = "json"
    /\ log[1].wrote = ("headers" :> ("Content-Type" :> Chars("text/html")))
    /\ result.body = JSONstringify(Json(<<"handler">>))
    /\ result.headers["Content-Type"] = Chars("text/html")

\* every kind of value has been serialized: Response, File, the file
\* helper's object, string and plain value
C17_ResponseHappens == pc = Done /\ Len(log) = 1 /\ log[1].outcome = "Response"
                          /\ log[1].wrote # NoSet /\ result = log[1].ret
C17_FileHappens == pc = Done /\ Len(log) = 1 /\ log[1].outcome = "file()"
                      /\ result.headers["Content-Type"] = Chars("image/png")
C17_StringHappens == pc = Done /\ Len(log) = 1 /\ log[1].outcome = "string"
                        /\ result.body = Text(Chars("ok"))

\* ctx.set.cookies at serialization time, by the log
C18_Cookies ==
    LET set == C13_Assigned(log)
    IN  IF "cookies" \in DOMAIN set THEN set.cookies ELSE <<>>

\* the names the claim gives: Set-Cookie, Set-Cookie-1, Set-Cookie-2
C18_Name(i) ==
    CASE i = 1 -> "Set-Cookie" [] i = 2 -> "Set-Cookie-1" [] i = 3 -> "Set-Cookie-2"
      [] i = 4 -> "Set-Cookie-3"

\* C18: for every value to serialize that is not a Response, each cookie of
\* ctx.set.cookies is rendered into its own header of the response, named
\* Set-Cookie, Set-Cookie-1, ..., Set-Cookie-(n-1): none is dropped, and
\* every header of ctx.set.headers is still there with its value.
C18_EveryCookieRendered ==
    C16_Serialized =>
        /\ \A i \in DOMAIN C18_Cookies :
              /\ C18_Name(i) \in DOMAIN result.headers
              /\ result.headers[C18_Name(i)] = cookieString(C18_Cookies[i])
        /\ \A h \in DOMAIN C17_SetHeaders :
              /\ h \in DOMAIN result.headers
              /\ result.headers[h] = C17_SetHeaders[h]

\* the value is a string or a plain value, and ctx.set.headers has no header
\* named like a cookie entry
C18_CookieBranch ==
    /\ C16_Serialized
    /\ ~C17_IsFileHandle(C13_Running)
    /\ \A h \in DOMAIN C17_SetHeaders, i \in 1..(MaxCookies + 1) : h # C18_Name(i)

\* what the code does for the values of the string and JSON branch: n
\* cookies give the n entries
C18_RenderedForStringAndJson ==
    C18_CookieBranch =>
        \A i \in DOMAIN C18_Cookies :
            /\ C18_Name(i) \in DOMAIN result.headers
            /\ result.headers[C18_Name(i)] = cookieString(C18_Cookies[i])

\* two cookies are set and a File is returned
C18_FileWithCookies ==
    /\ pc = Done
    /\ Len(log) = 1
    /\ log[1].outcome = "File"
    /\ Len(C18_Cookies) = 2
    /\ "Set-Cookie" \notin DOMAIN result.headers

\* ------------------------------------------------------------------------
\* Properties of the cookies
\* ------------------------------------------------------------------------
\* the request has been parsed: its context exists or parseCookies threw
C19_Parsed == pc.at \in {"handler", "done"}

\* the request carries the name=value part of the line cookie c is rendered
\* to
C19_SentBack(c) ==
    /\ "cookie" \in DOMAIN request.headers
    /\ request.headers["cookie"] = NameValuePart(cookieString(c))

\* C19: for every cookie name and value, the empty value and values with
\* ';', '=' or blanks included, the cookie rendered to its header line and
\* its name=value part parsed by parseCookies of a later request gives a
\* map that binds the cookie's name to the cookie's value.
C19_CookieRoundTrip ==
    \A c \in TripCookies :
        (C19_Parsed /\ C19_SentBack(c))
        => /\ pc.at = "handler"
           /\ c.name \in DOMAIN ctx.cookies
           /\ ctx.cookies[c.name] = c.value

\* what the code does: the round trip holds for every cookie whose value is
\* not empty
C19_RoundTripOfNonEmptyValues ==
    \A c \in TripCookies :
        (C19_Parsed /\ C19_SentBack(c) /\ c.value # <<>>)
        => /\ pc.at = "handler"
           /\ c.name \in DOMAIN ctx.cookies
           /\ ctx.cookies[c.name] = c.value

\* a cookie with a value made of ';' and '=' has come back whole
C19_SpecialValueHappens ==
    /\ pc.at = "handler"
    /\ request.headers = ("cookie" :> Chars("a%20b=%3B%3D"))
    /\ ctx.cookies = (Chars("a b") :> Chars(";="))

\* the position of the first '=' of a pair, 0 when it has none
C20_FirstEq(pair) ==
    LET eqs == {i \in DOMAIN pair : pair[i] = "="}
    IN  IF eqs = {} THEN 0 ELSE CHOOSE i \in eqs : \A j \in eqs : i <= j

RECURSIVE C20_Pairs(_, _)
\* the map the claim describes, for the pairs between the ';' of a header:
\* each trimmed, split at its first '=', both sides percent-decoded; a pair
\* without a name or without a value is skipped; ok = FALSE when a decoding
\* fails
C20_Pairs(pairs, cookies) ==
    IF pairs = <<>> THEN [ok |-> TRUE, val |-> cookies]
    ELSE LET pair == trim(Head(pairs))
             at == C20_FirstEq(pair)
             name == SubSeq(pair, 1, at - 1)
             value == SubSeq(pair, at + 1, Len(pair))
         IN  IF at = 0 \/ name = <<>> \/ value = <<>>
             THEN C20_Pairs(Tail(pairs), cookies)
             ELSE LET dn == decodeURIComponent(name)
                      dv == decodeURIComponent(value)
                  IN  IF ~dn.ok \/ ~dv.ok THEN [ok |-> FALSE, val |-> cookies]
                      ELSE C20_Pairs(Tail(pairs), (dn.val :> dv.val) @@ cookies)

C20_Expected ==
    IF "cookie" \in DOMAIN request.headers
    THEN C20_Pairs(splitOn(request.headers["cookie"], ";"), NoParams)
    ELSE [ok |-> TRUE, val |-> NoParams]

\* C20: parseCookies splits the Cookie header on ';', trims each pair,
\* splits each pair on the first '=' only, so that the value is everything
\* after the first '=', later '=' included, percent-decodes name and value,
\* and skips the pairs that have no value.
C20_SplitOnFirstEquals ==
    (C19_Parsed /\ C20_Expected.ok)
    => /\ pc.at = "handler"
       /\ ctx.cookies = C20_Expected.val

\* what the code does: the claim holds for every header in which no pair
\* has a second '='
C20_HoldsWithoutSecondEquals ==
    (/\ C19_Parsed
     /\ C20_Expected.ok
     /\ "cookie" \in DOMAIN request.headers
     /\ \A k \in DOMAIN splitOn(request.headers["cookie"], ";") :
           Len(splitOn(splitOn(request.headers["cookie"], ";")[k], "=")) <= 2)
    => /\ pc.at = "handler"
       /\ ctx.cookies = C20_Expected.val

\* the header "a=a=" has been parsed and a is bound to "a", not to "a="
C20_SecondEqualsHappens ==
    /\ pc.at = "handler"
    /\ request.headers = ("cookie" :> Chars("a=a="))
    /\ ctx.cookies = (Chars("a") :> Chars("a"))

\* ------------------------------------------------------------------------
\* Properties of the onResponse chain
\* ------------------------------------------------------------------------
\* the values JavaScript's || gives up for its right operand, of those a
\* callback of the model returns
C21_IsFalsy(v) ==
    \/ v.type \in {"undefined", "null"}
    \/ v.type = "boolean" /\ ~v.value
    \/ v.type = "number" /\ v.value = 0
    \/ v.type = "string" /\ v.text = <<>>

\* the onResponse chain is over: the handler returned and every registered
\* onResponse hook has been called
C21_ChainOver ==
    /\ pc = Done
    /\ \E k \in DOMAIN log : log[k].kind = "handler"
    /\ Cardinality({k \in DOMAIN log : log[k].kind = "onResponse"})
          = Cardinality({e \in {Dispatcher} \cup {plugins[Dispatcher][j] :
                                     j \in DOMAIN plugins[Dispatcher]} :
                            hooks[e]["onResponse"] # NoCallback})

\* the calls, in call order, that returned a value that is not falsy
C21_Kept ==
    {k \in DOMAIN log :
        /\ log[k].kind \in {"handler", "onResponse"}
        /\ (log[k].kind = "handler" \/ ~C21_IsFalsy(log[k].ret))}

\* C21: an onResponse hook that returns a falsy value leaves the running
\* response unchanged; after the chain the response value is the return
\* value of the last hook that returned a value that is not falsy, or the
\* handler's return value if no hook did.
C21_FalsyKeepsResponse ==
    /\ \A k \in DOMAIN log :
          (log[k].kind = "onResponse" /\ k > 1)
          => log[k].arg = log[CHOOSE j \in {i \in C21_Kept : i < k} :
                                 \A i \in C21_Kept : i < k => i <= j].ret
    /\ C21_ChainOver
       => response = log[CHOOSE j \in C21_Kept : \A i \in C21_Kept : i <= j].ret

\* the application's hook returned a value, p1's hook the empty string and
\* p2's hook 0: the response is still the application's value
C21_Witness ==
    /\ C21_ChainOver
    /\ Len(log) = 4
    /\ log[2].outcome = "value" /\ log[2].who = "app"
    /\ log[3].outcome = "empty" /\ log[3].who = "p1"
    /\ log[4].outcome = "zero" /\ log[4].who = "p2"
    /\ response = Json(<<"handler", "app">>)
    /\ result.body = JSONstringify(Json(<<"handler", "app">>))

\* ------------------------------------------------------------------------
\* Properties of the composition
\* ------------------------------------------------------------------------
RECURSIVE C22_Concat(_, _)
\* the lists of the instances `children`, one after the other
C22_Concat(table, children) ==
    IF children = <<>> THEN <<>>
    ELSE table[children[1]] \o C22_Concat(table, SubSeq(children, 2, Len(children)))

\* the routes (WebSocket routes) a dispatch of the application has to see:
\* its own current ones, then each direct child's current ones
C22_Routes == _routes["app"] \o C22_Concat(_routes, plugins["app"])
C22_WSRoutes == _wsRoutes["app"] \o C22_Concat(_wsRoutes, plugins["app"])

\* the patterns of the model that accept the pathname /a/b
C22_Accepting == {PatAX, PatAB}

\* the first position of a list of routes whose pattern accepts /a/b; 0 when
\* there is none
C22_First(routes) ==
    LET at == {k \in DOMAIN routes : routes[k].path \in C22_Accepting}
    IN  IF at = {} THEN 0 ELSE CHOOSE k \in at : \A j \in at : k <= j

\* the request in flight has been routed
C22_Routed == pc.at \notin {"idle", "routing"}

\* the instances whose hook of a kind a dispatch has to call, in order
C22_Hooked(kind) ==
    SelectSeq(<<"app">> \o plugins["app"], LAMBDA e : hooks[e][kind] # NoCallback)

\* the instances whose hook of a kind has been called for the request
C22_Called(kind) ==
    LET calls == SelectSeq(log, LAMBDA entry : entry.kind = kind)
    IN  [k \in DOMAIN calls |-> calls[k].who]

\* C22: use(child) stores a reference and takes no snapshot: after any
\* interleaving of use() and registration calls the routes, WebSocket
\* routes and hooks a dispatch of the parent sees are the parent's own
\* current ones followed by each direct child's current ones.
C22_NoSnapshot ==
    /\ (C22_Routed /\ ~IsUpgrade(request))
       => IF C22_First(C22_Routes) = 0
          THEN matched.kind = "null" /\ result.status = 404
          ELSE /\ matched.kind = "match"
               /\ matched.index = C22_First(C22_Routes)
               /\ matched.route = C22_Routes[C22_First(C22_Routes)]
    /\ (C22_Routed /\ IsUpgrade(request))
       => IF C22_First(C22_WSRoutes) = 0
          THEN result.type = "Response" /\ result.status = 400
          ELSE /\ result.type = "upgraded"
               /\ result.data.handler = C22_WSRoutes[C22_First(C22_WSRoutes)].handler
    /\ pc.at = "handler" => C22_Called("onRequest") = C22_Hooked("onRequest")
    /\ (pc = Done /\ \E k \in DOMAIN log : log[k].outcome = "json")
       => C22_Called("onResponse") = C22_Hooked("onResponse")
    /\ (pc = Done /\ \E k \in DOMAIN log : log[k].outcome = "throwError")
       => C22_Called("onError") = C22_Hooked("onError")

\* the application, which has no route and no hook of its own, embeds p1;
\* a route and an onRequest hook registered on p1 are dispatched
C22_Witness ==
    /\ _routes["app"] = <<>>
    /\ hooks["app"] = NoHooks
    /\ plugins["app"] = <<"p1">>
    /\ Len(_routes["p1"]) = 1
    /\ pc.at = "handler"
    /\ matched.kind = "match"
    /\ matched.route = _routes["p1"][1]
    /\ C22_Called("onRequest") = <<"p1">>

\* a WebSocket route registered on the child p2 is the upgrade's target
C22_WSHappens ==
    /\ _wsRoutes["app"] = <<>>
    /\ plugins["app"] = <<"p2">>
    /\ pc = Done
    /\ result = Upgraded([handler |-> "p2", params |-> NoParams, pathname |-> PatAB])

\* the instances a dispatch of the application may reach: itself and its
\* direct children
C23_Direct == {"app"} \cup {plugins["app"][j] : j \in DOMAIN plugins["app"]}

\* the instances embedded in a direct child only
C23_Nested ==
    {c \in Engines \ C23_Direct :
        \E b \in C23_Direct \ {"app"} : \E j \in DOMAIN plugins[b] : plugins[b][j] = c}

C23_RouteHappens ==
    /\ plugins["app"] = <<"p1">>
    /\ plugins["p1"] = <<"p2">>
    /\ _routes["p2"] = <<Route("GET", PatAB, {})>>
    /\ ~IsUpgrade(request)
    /\ pc = Done
    /\ result.type = "Response" /\ result.status = 404

\* the list after a step is the list before it, or the list before it with
\* one element appended
C24_SameOrOneMore(before, after) ==
    \/ after = before
    \/ /\ Len(after) = Len(before) + 1
       /\ SubSeq(after, 1, Len(before)) = before

\* a step changes at most one of the route lists of the three instances
C24_OneList ==
    Cardinality({<<e, t>> \in Engines \X {"http", "ws"} :
                    IF t = "http" THEN _routes'[e] # _routes[e]
                    ELSE _wsRoutes'[e] # _wsRoutes[e]}) <= 1

\* no route before position k of the list has the method and pattern of the
\* route at k
C24_IsFirstOfItsKind(routes, k) ==
    \A j \in 1..(k - 1) :
        ~(routes[j].method = routes[k].method /\ routes[j].path = routes[k].path)

\* C24: each get/post/put/delete/patch call appends exactly one route to
\* the end of the instance's own list and each ws() call exactly one
\* WebSocket route; existing routes are never replaced, reordered or
\* rejected, also when the same (method, pattern) is registered again, and
\* then the later route is never dispatched.
C24_AppendOnly ==
    /\ [][/\ \A e \in Engines :
                /\ C24_SameOrOneMore(_routes[e], _routes'[e])
                /\ C24_SameOrOneMore(_wsRoutes[e], _wsRoutes'[e])
          /\ C24_OneList]_vars
    /\ []((C22_Routed /\ matched.kind = "match" /\ ~IsUpgrade(request))
             => C24_IsFirstOfItsKind(C22_Routes, matched.index))

\* GET /a/b has been registered twice on the application and a request for
\* it has been routed to the first of the two
C24_Witness ==
    /\ _routes["app"] = <<Route("GET", PatAB, {}), Route("GET", PatAB, {})>>
    /\ pc.at = "validating"
    /\ matched.kind = "match"
    /\ matched.index = 1

\* the same WebSocket route has been registered twice on p1
C24_WSHappens ==
    /\ _wsRoutes["p1"] = <<WSRoute(PatAB, "p1"), WSRoute(PatAB, "p1")>>
    /\ plugins["app"] = <<"p1">>
    /\ pc = Done
    /\ result.type = "upgraded"

\* ------------------------------------------------------------------------
\* Properties of the hook registration
\* ------------------------------------------------------------------------
\* the hook calls of the request in flight
C25_HookCalls == {k \in DOMAIN log : log[k].kind \in HookKinds}

\* the callback most recently registered for a kind on an instance
C25_Latest(e, kind) ==
    IF registered[e][kind] = <<>> THEN NoCallback
    ELSE registered[e][kind][Len(registered[e][kind])]

\* a step that changes the hooks changes one kind of one instance
C25_OneKind ==
    hooks' # hooks
    => \E e \in Engines, kind \in HookKinds :
          \A e2 \in Engines, k2 \in HookKinds :
             <<e2, k2>> # <<e, kind>> => hooks'[e2][k2] = hooks[e2][k2]

\* C25: an instance holds at most one callback per hook kind: registering
\* a hook of a kind that is already registered replaces it, so only the
\* most recently registered callback of each kind is invoked, and
\* registering one kind leaves the other kinds unchanged.
C25_LastRegistrationWins ==
    /\ [][C25_OneKind]_vars
    /\ [](/\ \A k \in C25_HookCalls :
                log[k].callback = C25_Latest(log[k].who, log[k].kind)
          /\ \A j, k \in C25_HookCalls :
                (log[j].who = log[k].who /\ log[j].kind = log[k].kind) => j = k
          /\ \A e \in Engines, kind \in HookKinds :
                hooks[e][kind] = C25_Latest(e, kind))

\* onRequest of the application was called with f and then with g, its
\* onResponse with g and then with f: a request is answered by g as
\* onRequest hook and by f as onResponse hook, each called once
C25_Witness ==
    /\ pc = Done
    /\ registered["app"]["onRequest"] = <<"f", "g">>
    /\ registered["app"]["onResponse"] = <<"g", "f">>
    /\ registered["p1"]["onRequest"] = <<"f">>
    /\ Len(log) = 4
    /\ log[1].callback = "g" /\ log[1].who = "app" /\ log[1].kind = "onRequest"
    /\ log[2].callback = "f" /\ log[2].who = "p1"
    /\ log[3].kind = "handler"
    /\ log[4].callback = "f" /\ log[4].kind = "onResponse"

\* ------------------------------------------------------------------------
\* Properties of the plugins that are plain objects
\* ------------------------------------------------------------------------
\* the plain objects among the application's plugins that have a hook of
\* the kind as own property
C26_Exposing(kind) ==
    {o \in DOMAIN PlainObjects :
        /\ \E j \in DOMAIN plugins["app"] : plugins["app"][j] = o
        /\ kind \in PlainObjects[o]}

\* C26: any object that exposes zero or more of onRequest, onResponse and
\* onError as its own properties (the shape cors(), auth() and logger()
\* return) can be passed to use(), and its hooks are then invoked at
\* dispatch in the plugin position of the hook order, without making route
\* matching or dispatch fail.
C26_PlainObjectPlugin ==
    (pc = Done /\ ~IsUpgrade(request))
    => /\ result.type # "rejected"
       /\ matched.kind = "match"
       /\ \A o \in C26_Exposing("onRequest") :
             \E k \in DOMAIN log : log[k].kind = "onRequest" /\ log[k].who = o

\* the application uses cors() only and the request is rejected with the
\* TypeError of getAllRoutes
C26_TypeErrorHappens ==
    /\ plugins["app"] = <<"cors">>
    /\ pc = Done
    /\ matched = TypeError
    /\ result = Rejected("TypeError")
    /\ log = <<>>

\* what the code does: with a plain object among the plugins every request,
\* also a WebSocket upgrade, is rejected before any callback is called
C26_EveryDispatchRejected ==
    (C22_Routed /\ \E kind \in HookKinds : C26_Exposing(kind) # {})
    => /\ pc = Done
       /\ result = Rejected("TypeError")
       /\ log = <<>>

\* ------------------------------------------------------------------------
\* Properties of the WebSocket upgrade
\* ------------------------------------------------------------------------
\* what a pattern of the model binds for a pathname of the model: "none"
\* when the pattern does not accept the pathname, "malformed" when the
\* segment it has to bind is the malformed escape %4
C27_Binding(pattern, pathname) ==
    CASE pattern = PatAX /\ pathname = PatAB -> [kind |-> "bound", params |-> (<<"x">> :> <<"b">>)]
      [] pattern = PatAX /\ pathname = PathA4 -> [kind |-> "malformed"]
      [] pattern = PatAB /\ pathname = PatAB -> [kind |-> "bound", params |-> NoParams]
      [] pattern = UsersId /\ pathname = Users42a ->
             [kind |-> "bound", params |-> (<<"i", "d">> :> <<"4", "2", " ", "a">>)]
      [] OTHER -> [kind |-> "none"]

\* the positions of the WebSocket routes the dispatch sees that are
\* concerned by the pathname of the request
C27_Concerned ==
    {k \in DOMAIN C22_WSRoutes :
        C27_Binding(C22_WSRoutes[k].path, request.pathname).kind # "none"}

C27_FirstConcerned == CHOOSE k \in C27_Concerned : \A j \in C27_Concerned : k <= j

\* the pathname cannot be decoded for the first WebSocket route it concerns
C27_Malformed ==
    /\ C27_Concerned # {}
    /\ C27_Binding(C22_WSRoutes[C27_FirstConcerned].path, request.pathname).kind
          = "malformed"

C27_NoMatchHappens ==
    /\ IsUpgrade(request) /\ pc = Done /\ result.status = 400
    /\ server = Server(TRUE) /\ C27_Concerned = {} /\ C22_WSRoutes # <<>>
C27_NoServerHappens ==
    /\ IsUpgrade(request) /\ pc = Done /\ result.status = 400
    /\ server = NoServer /\ C27_Concerned # {} /\ ~C27_Malformed
C27_RejectedHappens ==
    /\ IsUpgrade(request) /\ pc = Done /\ result.status = 400
    /\ server = Server(FALSE) /\ C27_Concerned # {} /\ ~C27_Malformed

\* outside the cases of C27: the pathname /a/%4 meets the WebSocket route
\* /a/:x and handleRequest rejects with the URIError
C27_MalformedHappens ==
    /\ IsUpgrade(request) /\ C27_Malformed
    /\ pc = Done
    /\ result = Rejected("URIError")

\* ------------------------------------------------------------------------
\* Properties of two requests in flight
\* ------------------------------------------------------------------------
\* the calls in flight: the running one and the waiting one
C28_Tasks ==
    {[log |-> log, ctx |-> ctx, result |-> result, pc |-> pc, request |-> request]}
        \cup (IF suspended = NoTask THEN {}
              ELSE {[log |-> suspended.log, ctx |-> suspended.ctx,
                     result |-> suspended.result, pc |-> suspended.pc,
                     request |-> suspended.request]})

\* the callbacks of a call that assigned the property `key` of ctx.set
C28_Writers(t, key) == {k \in DOMAIN t.log : key \in DOMAIN t.log[k].wrote}

\* the properties of ctx.set the callbacks of a call have assigned
C28_Written(t) == {key \in {"status", "headers", "cookies"} : C28_Writers(t, key) # {}}

\* the value the call's own callbacks assigned last to the property
C28_Last(t, key) ==
    t.log[CHOOSE k \in C28_Writers(t, key) : \A j \in C28_Writers(t, key) : j <= k].wrote[key]

\* C28: contexts are never shared between requests: for any interleaving
\* of two in-flight requests at their await points, each request's
\* response status, headers and cookies are determined only by the writes
\* made to that request's own ctx.set, and a write to one request's context
\* is never observable through the other's.
C28_OwnContext ==
    \A t \in C28_Tasks :
        /\ t.log # <<>>
           => /\ DOMAIN t.ctx.set = C28_Written(t)
              /\ \A key \in C28_Written(t) : t.ctx.set[key] = C28_Last(t, key)
        /\ t.pc = Done
           => /\ t.result.status = IF "status" \in C28_Written(t) THEN 201 ELSE 200
              /\ ("X-Id" \in DOMAIN t.result.headers) = ("headers" \in C28_Written(t))
              /\ ("Set-Cookie" \in DOMAIN t.result.headers) = ("cookies" \in C28_Written(t))
              /\ "Set-Cookie" \in DOMAIN t.result.headers
                 => t.result.headers["Set-Cookie"] = Chars("b=1")

\* the first request's hook set the status, the second request came and
\* set a header and a cookie, the first went on and ended: it answers 201
\* without the header and the cookie, and the second answers 200 with them
C28_Witness ==
    /\ suspended # NoTask
    /\ request.pathname = UsersB
    /\ suspended.request.pathname = Users42a
    /\ pc = Done /\ suspended.pc = Done
    /\ suspended.log[1].wrote = ("status" :> 201)
    /\ suspended.result.status = 201
    /\ DOMAIN suspended.result.headers = {"Content-Type"}
    /\ result.status = 200
    /\ {"X-Id", "Set-Cookie"} \subseteq DOMAIN result.headers

\* ------------------------------------------------------------------------
\* The rate limit

RECURSIVE C29_Window(_, _)
\* the window of a key after the first i calls of the log, counted from the
\* calls alone: its first counted request and how many were counted in it
C29_Window(i, key) ==
    IF i = 0 THEN [start |-> 0, n |-> 0]
    ELSE LET e == log[i]
             prev == C29_Window(i - 1, key)
         IN  IF e.arg.key # key \/ e.arg.pathname = Health THEN prev
             ELSE IF prev.n = 0 \/ e.arg.at > prev.start + RateLimitOptions.window * 1000
             THEN [start |-> e.arg.at, n |-> 1]
             ELSE [prev EXCEPT !.n = @ + 1]

\* the calls of the hook for paths that are not excluded
C29_Counted == {i \in DOMAIN log : log[i].arg.pathname # Health}

\* the hook threw a Response with the status of the options
C29_Throttled(i) ==
    /\ log[i].outcome = "throwResponse"
    /\ log[i].ret.status = RateLimitOptions.statusCode

\* C29: for each key, within one window (from the first counted request
\* until window seconds later) exactly the first max requests to paths that
\* are not excluded pass the onRequest hook of rateLimit, and every further
\* request of the window makes the hook throw a Response with the status
\* statusCode
C29_FirstMaxPass ==
    \A i \in C29_Counted :
        IF C29_Window(i, log[i].arg.key).n <= RateLimitOptions.max
        THEN log[i].outcome = "return"
        ELSE C29_Throttled(i)

\* one client was throttled by its third request of a window, and within
\* that window another client passed
C29_Witness ==
    \E i, j \in C29_Counted :
        /\ i < j
        /\ C29_Throttled(i)
        /\ log[j].arg.key # log[i].arg.key
        /\ log[j].arg.at <= C29_Window(i, log[i].arg.key).start + 1000
        /\ log[j].outcome = "return"
        /\ C29_FirstMaxPass

\* a client that was throttled passes again once the window is over
C29_NewWindowHappens ==
    \E i, k \in C29_Counted :
        /\ i < k
        /\ C29_Throttled(i)
        /\ log[k].arg.key = log[i].arg.key
        /\ log[k].outcome = "return"

\* a request at the very end of a window (window seconds after its first
\* request) is still counted in it
C29_BoundaryHappens ==
    \E i \in C29_Counted :
        /\ C29_Throttled(i)
        /\ log[i].arg.at = C29_Window(i, log[i].arg.key).start + 1000

\* the two headers name the same client: a request with one and a request
\* with the other are counted together
C29_SameKeyHappens ==
    \E i, j \in C29_Counted :
        /\ i < j
        /\ log[i].arg.key = log[j].arg.key
        /\ log[i].arg.key # Chars("unknown")
        /\ log[i].ret = None /\ C29_Throttled(j)
        /\ \E h \in DOMAIN log : h < j /\ log[h].arg.pathname = Health

\* ------------------------------------------------------------------------
\* The exclude list of auth

\* the pathname is listed in exclude: an entry is equal to it, or an entry
\* with * matches it as a pattern
C30_Listed(pathname) ==
    \E k \in DOMAIN AuthOptions.exclude :
        ExcludesExactly(AuthOptions.exclude[k], pathname)

\* the request of the call in progress has no authorization header
C30_NoHeader == get(request.headers, AuthOptions.header).null

\* the calls of the auth hook and of the handler for the request
C30_HookCalls == {i \in DOMAIN log : log[i].kind = "onRequest"}
C30_HandlerCalls == {i \in DOMAIN log : log[i].kind = "handler"}

\* the hook threw a 401 Response
C30_Threw401(i) == log[i].outcome = "throwResponse" /\ log[i].ret.status = 401

\* C30: the auth hook skips authentication only for pathnames listed in
\* exclude; for every other pathname a request without the authorization
\* header makes the hook throw a 401 Response, the handler is not reached
\* and ctx.user is not set
C30_OnlyListedSkip ==
    (C30_HookCalls # {} /\ C30_NoHeader /\ ~C30_Listed(request.pathname)) =>
        /\ \A i \in C30_HookCalls : C30_Threw401(i)
        /\ C30_HandlerCalls = {}
        /\ "user" \notin DOMAIN ctx

\* the handler ran for /login2 without an authorization header: the entry
\* /login excluded it
C30_PrefixHappens ==
    /\ request.pathname = Chars("/login2")
    /\ C30_NoHeader
    /\ C30_HandlerCalls # {}

\* the handler ran for /v/api/a without an authorization header: the entry
\* /api/* excluded it
C30_UnanchoredHappens ==
    /\ request.pathname = Chars("/v/api/a")
    /\ C30_NoHeader
    /\ C30_HandlerCalls # {}

\* for the pathnames the code's own test does not exclude, a request
\* without the header ends with the thrown 401 Response and without the
\* handler
C30_NotExcludedIsChallenged ==
    (C30_HookCalls # {} /\ C30_NoHeader
        /\ ~IsExcluded(AuthOptions.exclude, request.pathname)) =>
        /\ \A i \in C30_HookCalls : C30_Threw401(i)
        /\ C30_HandlerCalls = {}
        /\ "user" \notin DOMAIN ctx

\* /me without the header was challenged, and with a token ctx.user was set
C30_ChallengedHappens ==
    /\ request.pathname = Chars("/me")
    /\ C30_NoHeader
    /\ \E i \in C30_HookCalls : C30_Threw401(i)
    /\ pc = Done

C30_UserHappens ==
    /\ request.pathname = Chars("/me")
    /\ "user" \in DOMAIN ctx
    /\ ctx.user.token = Chars("t")
    /\ C30_HandlerCalls # {}

\* the listed pathnames skip the hook's check
C30_ListedHappens ==
    /\ request.pathname \in {Chars("/login"), Chars("/api/a")}
    /\ C30_NoHeader
    /\ C30_HandlerCalls # {}

\* ------------------------------------------------------------------------
\* The outcome of a dispatch

\* handleRequest has settled with a Response or with the undefined of a
\* successful upgrade
C31_Answered == result.type \in {"Response", "upgraded"}

\* C31: every dispatched request terminates with exactly one outcome, a
\* Response or a successful upgrade: handleRequest never rejects, whatever
\* is thrown by an onRequest, onResponse or onError hook, by the handler or
\* by percent-decoding a malformed path segment
C31_NeverRejects == pc = Done => C31_Answered

\* an onError hook threw inside the catch block: the promise is rejected
C31_OnErrorThrowHappens ==
    /\ pc = Done
    /\ result = Rejected("onError")
    /\ log[Len(log)].kind = "onError" /\ log[Len(log)].outcome = "throwError"

\* decodeURIComponent threw for the segment %4 of the pathname, before
\* the try block
C31_MalformedPathHappens ==
    /\ pc = Done
    /\ request.pathname = PathA4
    /\ ~IsUpgrade(request)
    /\ result = Rejected("URIError")
    /\ log = <<>>

\* decodeURIComponent threw for the value % of a cookie, before the try
\* block
C31_MalformedCookieHappens ==
    /\ pc = Done
    /\ request.pathname = Users42a
    /\ request.headers = ("cookie" :> Chars("a=%"))
    /\ result = Rejected("URIError")
    /\ log = <<>>

\* what the callbacks of the try block throw is answered: when the pathname
\* and the Cookie header are well-formed and no onError hook throws, the
\* dispatch ends with a Response or a successful upgrade
C31_CaughtInsideTry ==
    (/\ pc = Done
     /\ request.pathname # PathA4
     /\ request.headers # ("cookie" :> Chars("a=%"))
     /\ \A k \in DOMAIN log : ~(log[k].kind = "onError" /\ log[k].outcome = "throwError"))
    => C31_Answered

\* a hook of each kind before the catch block and the handler threw, and the
\* dispatch was answered
C31_ThrownAndAnsweredHappens ==
    /\ pc = Done
    /\ C31_Answered
    /\ \E k \in DOMAIN log : log[k].kind = "onResponse" /\ log[k].outcome = "throwError"

\* ------------------------------------------------------------------------
\* The preflight request

\* the three headers of the preflight answer
C32_PreflightNames ==
    {"Access-Control-Allow-Methods", "Access-Control-Allow-Headers",
     "Access-Control-Max-Age"}

\* C32: with the cors plugin installed, an OPTIONS request to any path is
\* answered with status 204 and with the Access-Control-Allow-Methods,
\* Access-Control-Allow-Headers and Access-Control-Max-Age headers built by
\* the plugin's onRequest hook
C32_PreflightAnswered ==
    (pc = Done /\ request.method = "OPTIONS") =>
        /\ result.type = "Response"
        /\ result.status = 204
        /\ \A n \in C32_PreflightNames :
              /\ n \in DOMAIN result.headers
              /\ result.headers[n] = PreflightHeaders[n]

\* the two functions of cors() are the application's hooks and OPTIONS is
\* requested for a pathname that has GET and POST routes: the answer is the
\* 404 and no hook was called
C32_NotFoundHappens ==
    /\ pc = Done
    /\ request.method = "OPTIONS"
    /\ request.pathname = Users42a
    /\ hooks[Dispatcher].onRequest = "cors"
    /\ result = Response(404, [text |-> "Not Found"])
    /\ log = <<>>

\* cors() was passed to use(): the OPTIONS request is rejected with the
\* TypeError of the route collection
C32_TypeErrorHappens ==
    /\ pc = Done
    /\ request.method = "OPTIONS"
    /\ plugins[Dispatcher] = <<"cors">>
    /\ result = Rejected("TypeError")

\* no route has the method OPTIONS, so the hook is never called for an
\* OPTIONS request
C32_HookNeverSeesOptions ==
    /\ \A k \in DOMAIN _routes[Dispatcher] : _routes[Dispatcher][k].method # "OPTIONS"
    /\ (log # <<>> => request.method # "OPTIONS")

\* for a GET request the hooks of cors() run and the answer carries the
\* Access-Control-Allow-Origin header of the onResponse hook
C32_ActualRequestHappens ==
    /\ pc = Done
    /\ request.method = "GET"
    /\ result.type = "Response" /\ result.status = 200
    /\ "Access-Control-Allow-Origin" \in DOMAIN result.headers
    /\ result.headers["Access-Control-Allow-Origin"] = Chars("*")

\* ------------------------------------------------------------------------
\* The server lifecycle

\* what a call did, in order: the pairs (what, hook) of its events
C33_Did(c) ==
    LET own == SelectSeq(events, LAMBDA e : e.call = c)
    IN  [k \in DOMAIN own |-> <<own[k].what, own[k].hook>>]

\* the steps of a hook that is registered and returns
C33_Hook(kind) ==
    IF HasHook(kind) THEN <<(<<"call", kind>>), (<<"return", kind>>)>> ELSE <<>>

\* what a start() and a stop() that take effect do when every hook returns
C33_Expected(op) ==
    IF op = "start"
    THEN C33_Hook("onBeforeStart") \o <<(<<"serve", "none">>)>> \o C33_Hook("onAfterStart")
    ELSE C33_Hook("onBeforeStop")
         \o <<(<<"server.stop", "none">>), (<<"cleared", "none">>)>>
         \o C33_Hook("onAfterStop")

\* s begins t
C33_Prefix(s, t) == Len(s) <= Len(t) /\ s = SubSeq(t, 1, Len(s))

\* a call that has resolved either did nothing or did all the expected
\* steps in their order, and a call that waits for a hook has done the
\* steps up to the call of that hook
C33_InOrder ==
    \A c \in DOMAIN lifecycleCalls :
        LET call == lifecycleCalls[c]
            did == C33_Did(c)
            expected == C33_Expected(call.op)
        IN  /\ call.at = "resolved" => did = <<>> \/ did = expected
            /\ call.at \in LifecycleKinds =>
                  /\ C33_Prefix(did, expected)
                  /\ did[Len(did)] = <<"call", call.at>>

\* while onBeforeStart runs the server of the call does not exist and the
\* engine is not running; while onAfterStart and onBeforeStop run it is
\* running and its server listens; while onAfterStop runs it is not running
\* and the server the call took from this.server has been stopped
C33_StateAtHook ==
    \A c \in DOMAIN lifecycleCalls :
        LET at == lifecycleCalls[c].at
        IN  /\ at = "onBeforeStart" =>
                  /\ ~isRunning /\ thisServer = 0
                  /\ \A k \in DOMAIN events : events[k].call = c => events[k].what # "serve"
            /\ at \in {"onAfterStart", "onBeforeStop"} =>
                  /\ isRunning /\ thisServer # 0
                  /\ servers[thisServer].state = "listening"
            /\ at = "onAfterStop" =>
                  /\ ~isRunning /\ thisServer = 0
                  /\ \E k \in DOMAIN events :
                        /\ events[k].call = c /\ events[k].what = "server.stop"
                        /\ servers[events[k].id].state = "stopped"

\* a start() on a running engine and a stop() on a stopped engine settle at
\* once, call no hook and change nothing; every other call takes effect
C33_NoOp ==
    Len(lifecycleCalls') > Len(lifecycleCalls) =>
        LET call == lifecycleCalls'[Len(lifecycleCalls')]
        IN  IF isRunning <=> call.op = "start"
            THEN /\ call.at = "resolved"
                 /\ UNCHANGED <<isRunning, thisServer, servers, events>>
            ELSE /\ events' # events
                 /\ events'[Len(events) + 1].call = Len(lifecycleCalls')

\* C33: start() on a stopped engine runs onBeforeStart to completion, then
\* creates the server and sets running, then runs onAfterStart; stop() on a
\* running engine runs onBeforeStop, then stops the server and clears
\* running, then runs onAfterStop; start() on a running engine and stop() on
\* a stopped engine are no-ops that invoke no hook and change no state
C33_LifecycleOrder == [][C33_NoOp]_vars /\ [](C33_InOrder /\ C33_StateAtHook)

\* with all four hooks registered: a start() ran its six steps, then a
\* second start() did nothing, then a stop() ran its six steps
C33_Witness ==
    /\ \A k \in LifecycleKinds : HasHook(k)
    /\ Len(lifecycleCalls) = 3
    /\ \A c \in 1..3 : lifecycleCalls[c].at = "resolved"
    /\ lifecycleCalls[1].op = "start" /\ Len(C33_Did(1)) = 5
    /\ lifecycleCalls[2].op = "start" /\ C33_Did(2) = <<>>
    /\ lifecycleCalls[3].op = "stop" /\ Len(C33_Did(3)) = 6
    /\ C33_InOrder

\* a stop() on an engine that was never started did nothing
C33_StopNoOpHappens ==
    /\ Len(lifecycleCalls) = 2
    /\ lifecycleCalls[1].op = "stop" /\ lifecycleCalls[1].at = "resolved"
    /\ lifecycleCalls[2].op = "start" /\ lifecycleCalls[2].at = "onAfterStart"
    /\ C33_Did(1) = <<>>

\* ------------------------------------------------------------------------
\* Overlapping start() calls

\* the servers that listen
C34_Listening == {k \in DOMAIN servers : servers[k].state = "listening"}

\* how often something was done with a hook or a server in the history
C34_Count(what, hook) ==
    Cardinality({k \in DOMAIN events : events[k].what = what /\ events[k].hook = hook})

\* no stop() has been called yet
C34_NoStopYet == \A c \in DOMAIN lifecycleCalls : lifecycleCalls[c].op = "start"

\* one server at most, created once, and each start hook called once at
\* most, before the first stop()
C34_Once ==
    /\ Cardinality(C34_Listening) <= 1
    /\ C34_NoStopYet =>
          /\ C34_Count("serve", "none") <= 1
          /\ C34_Count("call", "onBeforeStart") <= 1
          /\ C34_Count("call", "onAfterStart") <= 1

\* C34: at most one underlying server exists per engine instance at any
\* time: for every interleaving of two or more start() calls, also with an
\* asynchronous onBeforeStart hook registered, the server is created only
\* once and onBeforeStart and onAfterStart each run only once until the
\* next stop()
C34_OneServer == C34_Once

\* two start() calls for two ports both waited for onBeforeStart: two
\* servers listen and the engine refers to the second one only
C34_TwoServersHappens ==
    /\ C34_NoStopYet
    /\ Cardinality(C34_Listening) = 2
    /\ thisServer = 2
    /\ C34_Count("call", "onAfterStart") = 2

\* two start() calls for the same port: Bun.serve fails for the second
\* one, after onBeforeStart has run twice
C34_SamePortHappens ==
    /\ C34_NoStopYet
    /\ Len(lifecycleCalls) = 2
    /\ lifecycleCalls[1].port = lifecycleCalls[2].port
    /\ C34_Count("call", "onBeforeStart") = 2
    /\ lifecycleCalls[2].at = "rejected"
    /\ events[Len(events)].what = "serveFailed"

\* without an onBeforeStart hook start() has no await before isRunning is
\* set: overlapping start() calls create one server and call onAfterStart
\* once
C34_OnceWithoutBeforeStart ==
    (~HasHook("onBeforeStart") /\ C34_NoStopYet) => C34_Once

\* three start() calls without onBeforeStart, the first still waiting for
\* onAfterStart: one server
C34_GuardedHappens ==
    /\ ~HasHook("onBeforeStart")
    /\ Len(lifecycleCalls) = 3
    /\ C34_NoStopYet
    /\ lifecycleCalls[1].at = "onAfterStart"
    /\ lifecycleCalls[3].at = "resolved"
    /\ Cardinality(C34_Listening) = 1

\* ------------------------------------------------------------------------
\* The running flag and the server

\* C35: the engine's running flag agrees with the underlying server:
\* whenever isServerRunning() is false after a start, the server created by
\* that start has been stopped; in particular, when stop() fails because
\* onBeforeStop or onAfterStop throws, the server has still been stopped by
\* the time the running state is reset
C35_StoppedWhenNotRunning ==
    ~isServerRunning => \A k \in DOMAIN servers : servers[k].state = "stopped"

\* onBeforeStop threw: stop() is rejected, isServerRunning() is false, and
\* the server of the start still listens
C35_BeforeStopThrowHappens ==
    /\ Len(lifecycleCalls) = 2
    /\ lifecycleCalls[1].op = "start" /\ lifecycleCalls[1].at = "resolved"
    /\ lifecycleCalls[2].op = "stop" /\ lifecycleCalls[2].at = "rejected"
    /\ events[Len(events) - 1] = Event(2, "throw", "onBeforeStop", 0)
    /\ events[Len(events)].what = "reset"
    /\ ~isServerRunning
    /\ servers[1].state = "listening"

\* after it the engine can be started on another port, and two servers
\* listen
C35_SecondServerHappens ==
    /\ Len(lifecycleCalls) = 3
    /\ lifecycleCalls[2].op = "stop" /\ lifecycleCalls[2].at = "rejected"
    /\ lifecycleCalls[3].op = "start" /\ lifecycleCalls[3].at = "resolved"
    /\ isServerRunning
    /\ \A k \in {1, 2} : servers[k].state = "listening"

\* as long as no onBeforeStop hook has thrown, the flag and the server
\* agree, also when onAfterStop throws
C35_StoppedUnlessBeforeStopThrew ==
    (\A k \in DOMAIN events : ~(events[k].what = "throw" /\ events[k].hook = "onBeforeStop"))
    => C35_StoppedWhenNotRunning

\* onAfterStop threw: the server had been stopped before
C35_AfterStopThrowHappens ==
    /\ Len(lifecycleCalls) = 2
    /\ lifecycleCalls[2].op = "stop" /\ lifecycleCalls[2].at = "rejected"
    /\ events[Len(events) - 1] = Event(2, "throw", "onAfterStop", 0)
    /\ ~isServerRunning
    /\ servers[1].state = "stopped"

\* ------------------------------------------------------------------------
\* The window of the rate limit

\* the step is a call of a hook for the key: of onRequest for a path that
\* is not excluded, or of onResponse for a response that is skipped
C36_Called(key, kind, outcomes) ==
    /\ Len(log') = Len(log) + 1
    /\ log'[Len(log')].kind = kind
    /\ log'[Len(log')].outcome \in outcomes
    /\ log'[Len(log')].arg.key = key

\* what a step does to the entry of a key
C36_Step(key) ==
    LET live == key \in DOMAIN store /\ ~(now > store[key].resetTime)
        counted == C36_Called(key, "onRequest", {"return", "throwResponse"})
        skipped == C36_Called(key, "onResponse", {"skip"})
    IN  IF live
        THEN /\ key \in DOMAIN store'
             /\ store'[key].resetTime = store[key].resetTime
             /\ store'[key].count =
                    IF counted THEN store[key].count + 1
                    ELSE IF skipped /\ store[key].count > 0 THEN store[key].count - 1
                    ELSE store[key].count
        ELSE IF counted
        THEN /\ key \in DOMAIN store'
             /\ store'[key] = [count |-> 1,
                               resetTime |-> now + SkipOptions.window * 1000]
        ELSE \/ key \notin DOMAIN store'
             \/ key \in DOMAIN store /\ store'[key] = store[key]

\* C36: an entry is treated as absent once the current time is strictly
\* greater than its resetTime; the next counted request for that key then
\* starts a new window with count 1 and resetTime = now + window*1000, and
\* within a window resetTime never changes while count only changes by the
\* increment of a counted request or the decrement of a skipped one
C36_WindowReset ==
    [][\A key \in DOMAIN store \cup DOMAIN store' : C36_Step(key)]_vars

\* a request was counted, its response was skipped, and a request after the
\* end of that window has started a new window with count 1
C36_Witness ==
    \E i, j, k \in DOMAIN log :
        /\ i < j /\ j < k /\ k = Len(log)
        /\ log[i].kind = "onRequest" /\ log[i].outcome = "return"
        /\ log[j].kind = "onResponse" /\ log[j].outcome = "skip"
        /\ log[j].arg.at <= log[i].arg.at + 1000
        /\ log[k].kind = "onRequest" /\ log[k].outcome = "return"
        /\ log[k].arg.at > log[i].arg.at + 1000
        /\ log[k].arg.at = now
        /\ log[k].arg.key \in DOMAIN store
        /\ store[log[k].arg.key] = [count |-> 1, resetTime |-> now + 1000]

\* a request exactly at the reset time is counted in the old window: the
\* third one is throttled there
C36_AtResetTimeHappens ==
    \E k \in DOMAIN log :
        /\ k = Len(log)
        /\ log[k].kind = "onRequest" /\ log[k].outcome = "throwResponse"
        /\ log[k].arg.key \in DOMAIN store
        /\ store[log[k].arg.key].resetTime = now
        /\ store[log[k].arg.key].count = 3

\* ------------------------------------------------------------------------
\* The count with skipSuccessful

\* the start of the window the entry of a key stands for
C37_WindowStart(key) == store[key].resetTime - SkipOptions.window * 1000

\* the response of the request of log entry i was skipped
C37_Skipped(i) ==
    \E k \in DOMAIN log :
        log[k].kind = "onResponse" /\ log[k].arg.of = i /\ log[k].outcome = "skip"

\* the requests of the current window of a key that passed through the
\* increment of the store and were not skipped
C37_Counted(key) ==
    {i \in DOMAIN log :
        /\ log[i].kind = "onRequest"
        /\ log[i].arg.key = key
        /\ log[i].outcome \in {"return", "throwResponse"}
        /\ log[i].arg.at >= C37_WindowStart(key)
        /\ ~C37_Skipped(i)}

\* the keys whose entry has not expired
C37_Live == {key \in DOMAIN store : ~(now > store[key].resetTime)}

\* C37: with skipSuccessful or skipFailed set, for each key the stored
\* count is never negative and always equals the number of requests of the
\* current window that passed through the limiter's increment and were not
\* skipped; a request to an excluded path never changes the count of any key
C37_CountIsExact ==
    \A key \in C37_Live :
        /\ store[key].count >= 0
        /\ store[key].count = Cardinality(C37_Counted(key))

\* the stored count is never negative
C37_NeverNegative == \A key \in DOMAIN store : store[key].count >= 0

\* a request for /a/b was counted and has no response yet; the response of
\* a request for the excluded /health was skipped and took the count of the
\* key back to 0
C37_ExcludedChangesCountHappens ==
    /\ Len(log) = 3
    /\ log[1].kind = "onRequest" /\ log[1].arg.pathname = PatAB
    /\ log[2].kind = "onRequest" /\ log[2].arg.pathname = Health
    /\ log[3].kind = "onResponse" /\ log[3].arg.of = 2 /\ log[3].outcome = "skip"
    /\ log[1].arg.key \in C37_Live
    /\ store[log[1].arg.key].count = 0
    /\ C37_Counted(log[1].arg.key) = {1}

\* the response of a request of the window before was skipped after a new
\* window had begun, and took the one request of the new window back
C37_LateResponseHappens ==
    /\ Len(log) = 3
    /\ \A k \in DOMAIN log : log[k].arg.pathname = PatAB
    /\ log[2].kind = "onRequest" /\ log[2].arg.at > log[1].arg.at + 1000
    /\ log[3].kind = "onResponse" /\ log[3].arg.of = 1 /\ log[3].outcome = "skip"
    /\ log[1].arg.key \in C37_Live
    /\ store[log[1].arg.key].count = 0
    /\ C37_Counted(log[1].arg.key) = {2}

\* when the client requests no excluded path and every request and
\* response falls into the window of the first request, the count is exact
C37_ExactOtherwise ==
    (\A k \in DOMAIN log :
        /\ log[k].arg.pathname # Health
        /\ log[k].arg.at <= log[1].arg.at + SkipOptions.window * 1000)
    => C37_CountIsExact

\* a request was counted and skipped and another was counted and not
\* skipped, within one window: the count is 1
C37_ExactHappens ==
    /\ Len(log) = 4
    /\ \A k \in DOMAIN log : log[k].arg.pathname = PatAB /\ log[k].arg.at <= 1000
    /\ log[3].kind = "onResponse" /\ log[3].outcome = "skip"
    /\ log[4].kind = "onResponse" /\ log[4].outcome = "count"
    /\ log[1].arg.key \in C37_Live
    /\ store[log[1].arg.key].count = 1

\* ------------------------------------------------------------------------
\* The signature of a token

\* the token of the request in flight and its parts
C38_Token ==
    LET value == get(request.headers, "authorization").value
    IN  SubSeq(value, 8, Len(value))

C38_Parts == splitAt(C38_Token, ".")

\* the third part of the token is the signature createJWT derives from the
\* two other parts and the secret of the hook
C38_Signed ==
    /\ Len(C38_Parts) = 3
    /\ C38_Parts[3] = Signature(C38_Parts[1], C38_Parts[2], JwtOptions.secret)

\* the calls of the hook for the request in flight
C38_HookCalls == {i \in DOMAIN log : log[i].kind = "onRequest"}

\* the hook threw a 401 Response and ctx.user was not set
C38_Rejected(i) ==
    /\ log[i].outcome = "throwResponse"
    /\ log[i].ret.status = 401
    /\ "user" \notin DOMAIN ctx

\* C38: auth({type: 'jwt', secret}) without a custom verify accepts a
\* bearer token only if it is a token that createJWT would produce with the
\* same secret: a token whose signature part was not derived from that
\* secret is rejected with a 401 and ctx.user is not set
C38_OnlySignedAccepted ==
    \A i \in C38_HookCalls : ~C38_Signed => C38_Rejected(i)

\* a token made with the secret 'z' was accepted by the hook with the
\* secret 'k': the handler ran with its payload as ctx.user
C38_OtherSecretHappens ==
    /\ C38_Token \in CreatedTokens(Chars("z"))
    /\ ~C38_Signed
    /\ \E i \in C38_HookCalls : log[i].outcome = "return"
    /\ "user" \in DOMAIN ctx
    /\ \E k \in DOMAIN log : log[k].kind = "handler"

\* a token put together by hand, without exp and with the signature "A",
\* was accepted
C38_HandMadeHappens ==
    /\ Len(C38_Parts) = 3
    /\ C38_Parts[3] = Chars("A")
    /\ \E i \in C38_HookCalls : log[i].outcome = "return"
    /\ "user" \in DOMAIN ctx
    /\ ctx.user = [sub |-> "b"]

\* what the hook does reject: a token without three parts, or whose second
\* part is not the encoding of a payload
C38_MalformedRejected ==
    \A i \in C38_HookCalls :
        (\/ Len(C38_Parts) < 3
         \/ ~atob(C38_Parts[2]).ok
         \/ ~JSONparse(atob(C38_Parts[2]).val).ok)
        => C38_Rejected(i)

C38_MalformedHappens ==
    /\ Len(C38_Parts) = 3
    /\ C38_Parts[2] = Chars("x")
    /\ \E i \in C38_HookCalls : C38_Rejected(i)
    /\ pc = Done

\* ------------------------------------------------------------------------
\* The expiry of a token

\* the seconds at which a token of the model can have been made
C39_Seconds == 0..(MaxTicks \div 2)

\* what the hook has to do at the time `at` with the token createJWT made
\* for `who` at t0 with expiresIn
C39_AsExpected(i, who, t0, expiresIn) ==
    IF log[i].arg.at < (t0 + expiresIn) * 1000
    THEN /\ log[i].outcome = "return"
         /\ "user" \in DOMAIN ctx
         /\ ctx.user = [sub |-> who, iat |-> t0, exp |-> t0 + expiresIn]
    ELSE /\ C38_Rejected(i)
         /\ log[i].ret.body.of.error = "Token expired"

\* the property for the tokens whose expiry satisfies `expiries`
C39_For(expiries) ==
    \A i \in C38_HookCalls, who \in Subjects, t0 \in C39_Seconds, expiresIn \in ExpiresIn :
        (/\ t0 + expiresIn \in expiries
         /\ C38_Token = createJWTAt([sub |-> who], JwtOptions.secret, expiresIn, t0))
        => C39_AsExpected(i, who, t0, expiresIn)

\* C39: a token created by createJWT(payload, secret, expiresIn) at time t0
\* (in seconds) is accepted by auth({type: 'jwt', secret}) at every time
\* strictly before (t0 + expiresIn) seconds, with ctx.user equal to the
\* payload extended by iat and exp, and is rejected with a 401 'Token
\* expired' at every time at or after it
C39_ExpiresAtExp == C39_For(ClaimTimes)

\* a token made at second 1 with expiresIn = -1 has exp = 0: the hook
\* accepted it after its expiry
C39_ZeroExpHappens ==
    /\ C38_Token = createJWTAt([sub |-> "a"], JwtOptions.secret, 0 - 1, 1)
    /\ \E i \in C38_HookCalls : log[i].arg.at >= 1000 /\ log[i].outcome = "return"
    /\ "user" \in DOMAIN ctx
    /\ ctx.user.exp = 0

\* for every token whose exp is not 0 the sentence holds
C39_ExpiresUnlessZero == C39_For(ClaimTimes \ {0})

\* a token made at second 0 with expiresIn = 2 was accepted half a second
\* before its expiry
C39_AcceptedHappens ==
    /\ C38_Token = createJWTAt([sub |-> "a"], JwtOptions.secret, 2, 0)
    /\ \E i \in C38_HookCalls : log[i].arg.at = 1500 /\ log[i].outcome = "return"
    /\ "user" \in DOMAIN ctx
    /\ ctx.user = [sub |-> "a", iat |-> 0, exp |-> 2]

\* and the same token was rejected at its expiry
C39_ExpiredHappens ==
    /\ C38_Token = createJWTAt([sub |-> "a"], JwtOptions.secret, 2, 0)
    /\ \E i \in C38_HookCalls :
          /\ log[i].arg.at = 2000
          /\ C38_Rejected(i)
          /\ log[i].ret.body.of.error = "Token expired"

====
